---------------------------- MODULE Spec2Model ----------------------------
(***************************************************************************)
(* Model of the calculators of src/rf_antenna_gui_v3.py (RFAntennaGUI):    *)
(* the link budget, Friis, Fresnel, coax, Smith and antenna tabs, and the   *)
(* history they append to.  A handler is one action; its entry fields are  *)
(* its input.                                                              *)
(*                                                                         *)
(* Numbers.  The program computes with Python floats.  The model computes  *)
(* with exact rationals <<n, d>> (d > 0, lowest terms), so +, -, * and /   *)
(* are exact.  The transcendental functions are fixed-point:               *)
(*   10 ** x   is taken at x rounded down to a tenth, from the table       *)
(*             1, 5/4, 8/5, 2, 5/2, 16/5, 4, 5, 32/5, 8  (10^0.0 .. 10^0.9)*)
(*   log10(x)  is the largest tenth k/10 with 10 ** (k/10) <= x            *)
(*   sqrt(x)   is exact on squares, rounded down to a hundredth elsewhere  *)
(*   pi        is 157/50                                                   *)
(* Exceptions the float operations raise (division by zero, log10 of a     *)
(* non-positive number, overflow of 10 ** x) are modelled as the error     *)
(* outcome of the handler that evaluates them.                             *)
(*                                                                         *)
(* Left out: the timestamp of a record, the history file that save_history *)
(* writes, the rendering of the result text, the plots and the theme.      *)
(***************************************************************************)
EXTENDS Integers, Sequences, FiniteSets, TLC

VARIABLES
    history,          \* self.history: the CalcRecords, oldest first
    hist_tree,        \* rows of self.hist_tree, the history view
    friis_tree,       \* rows of self.friis_tree, the Friis stage table
    rf_results,       \* what self.rf_results displays
    friis_results,    \* what self.friis_results displays
    coax_results,     \* what self.coax_results displays
    smith_results,    \* what self.smith_results displays and plots
    fresnel_results,  \* what self.fresnel_results displays
    ant_results,      \* what self.ant_results displays
    last              \* the handler that ran last, its inputs and its outcome

vars == <<history, hist_tree, friis_tree, rf_results, friis_results,
          coax_results, smith_results, fresnel_results, ant_results, last>>

\* ------------------------------------------------------------------------
\* Bounds of the model
\* ------------------------------------------------------------------------
MaxHistory == 2     \* records in the history, in the specification of all tabs
TabHistory == 1     \* records in the history, in a specification of one tab
MaxStages == 3      \* rows of the Friis stage table (SpecFriis)
MaxPair == 2        \* rows of the Friis stage table (SpecFriisPair, Spec)
MaxElements == 8    \* elements of a Yagi, on the antenna tab
MaxMarginStep == 60 \* the link margins of SpecAvail are k dB, k = -5 .. MaxMarginStep
MaxFreqStep == 31   \* the coax query frequencies are 50 * k MHz, k = -1 .. MaxFreqStep

\* ------------------------------------------------------------------------
\* Rational arithmetic (Python float +, -, *, /, comparisons)
\* ------------------------------------------------------------------------
Abs(x) == IF x < 0 THEN -x ELSE x

RECURSIVE GCD(_, _)
GCD(a, b) == IF b = 0 THEN a ELSE GCD(b, a % b)

Rat(n, d) ==
    LET g == GCD(Abs(n), Abs(d))
        s == IF d < 0 THEN -1 ELSE 1
    IN  <<(s * n) \div g, (s * d) \div g>>

I(n) == <<n, 1>>

RNeg(a) == <<-a[1], a[2]>>

RAdd(a, b) ==
    LET g == GCD(a[2], b[2])
    IN  Rat(a[1] * (b[2] \div g) + b[1] * (a[2] \div g), (a[2] \div g) * b[2])

RSub(a, b) == RAdd(a, RNeg(b))

RMul(a, b) ==
    LET g1 == GCD(Abs(a[1]), b[2])
        g2 == GCD(Abs(b[1]), a[2])
    IN  Rat((a[1] \div g1) * (b[1] \div g2), (a[2] \div g2) * (b[2] \div g1))

\* a / b, for b # 0 (Python raises ZeroDivisionError at b = 0)
RDiv(a, b) == RMul(a, Rat(b[2], b[1]))

RLt(a, b) ==
    LET g == GCD(a[2], b[2]) IN a[1] * (b[2] \div g) < b[1] * (a[2] \div g)

RLe(a, b) ==
    LET g == GCD(a[2], b[2]) IN a[1] * (b[2] \div g) <= b[1] * (a[2] \div g)

RMax(a, b) == IF RLt(a, b) THEN b ELSE a
RMin(a, b) == IF RLt(b, a) THEN b ELSE a

\* floor of a rational
Floor(a) == a[1] \div a[2]

\* ------------------------------------------------------------------------
\* 10 ** x and log10(x)
\* ------------------------------------------------------------------------
\* 10 ** (k/10) for k = 0 .. 9
Pow10Mantissa ==
    <<I(1), Rat(5, 4), Rat(8, 5), I(2), Rat(5, 2), Rat(16, 5), I(4), I(5),
      Rat(32, 5), I(8)>>

RECURSIVE IntPow10(_)
IntPow10(e) == IF e = 0 THEN 1 ELSE 10 * IntPow10(e - 1)

\* the exponents (in tenths) whose power the model's integers can hold;
\* below the range 10 ** x underflows to 0, as the float does further down
MaxTenths == 80
MinTenths == -MaxTenths

Pow10Tenths(k) ==
    IF k < MinTenths THEN I(0)
    ELSE LET e == k \div 10
             m == Pow10Mantissa[(k % 10) + 1]
         IN  IF e >= 0 THEN RMul(m, I(IntPow10(e)))
             ELSE RMul(m, Rat(1, IntPow10(-e)))

\* 10 ** x raises OverflowError above the largest float (1.797e308)
Pow10Raises(x) == RLt(Rat(3082547, 10000), x)

Pow10(x) == Pow10Tenths(Floor(RMul(x, I(10))))

\* math.log10(x) for x > 0 (it raises ValueError for x <= 0): the decade e
\* with 10^e <= x < 10^(e+1), then the tenth within the decade
RECURSIVE DecadeUp(_, _)
DecadeUp(x, e) == IF RLe(I(IntPow10(e + 1)), x) THEN DecadeUp(x, e + 1) ELSE e

RECURSIVE DecadeDown(_, _)
DecadeDown(x, e) == IF RLt(x, Rat(1, IntPow10(-e))) THEN DecadeDown(x, e - 1) ELSE e

Log10Raises(x) == RLe(x, I(0))

Log10(x) ==
    LET e == IF RLe(I(1), x) THEN DecadeUp(x, 0) ELSE DecadeDown(x, -1)
        j == CHOOSE i \in 0 .. 9 :
                 /\ RLe(Pow10Tenths(10 * e + i), x)
                 /\ i < 9 => RLt(x, Pow10Tenths(10 * e + i + 1))
    IN  Rat(10 * e + j, 10)

\* math.sqrt(x) for x >= 0 (it raises ValueError for x < 0): exact on the
\* squares, rounded down to a hundredth elsewhere
RECURSIVE ISqrtIn(_, _, _)
ISqrtIn(n, lo, hi) ==
    IF lo >= hi THEN lo
    ELSE LET mid == (lo + hi + 1) \div 2
         IN  IF mid <= n \div mid THEN ISqrtIn(n, mid, hi) ELSE ISqrtIn(n, lo, mid - 1)

ISqrt(n) == IF n = 0 THEN 0 ELSE ISqrtIn(n, 1, IF n < 46340 THEN n ELSE 46340)

Sqrt(x) ==
    LET rn == ISqrt(x[1])
        rd == ISqrt(x[2])
    IN  IF rn * rn = x[1] /\ rd * rd = x[2] THEN Rat(rn, rd)
        ELSE Rat(ISqrt((x[1] * 10000) \div x[2]), 100)

\* ------------------------------------------------------------------------
\* Databases
\* ------------------------------------------------------------------------
COAX_DB ==
    [c \in {"RG-58", "RG-213", "LMR-240", "LMR-400", "LMR-600"} |->
        CASE c = "RG-58"   -> (50 :> Rat(19, 10)) @@ (150 :> Rat(38, 10)) @@ (450 :> Rat(70, 10))
                              @@ (900 :> Rat(103, 10)) @@ (1500 :> Rat(135, 10))
          [] c = "RG-213"  -> (50 :> Rat(7, 10)) @@ (150 :> Rat(14, 10)) @@ (450 :> Rat(26, 10))
                              @@ (900 :> Rat(39, 10)) @@ (1500 :> Rat(51, 10))
          [] c = "LMR-240" -> (50 :> Rat(6, 10)) @@ (150 :> Rat(13, 10)) @@ (450 :> Rat(27, 10))
                              @@ (900 :> Rat(41, 10)) @@ (1500 :> Rat(54, 10))
          [] c = "LMR-400" -> (50 :> Rat(3, 10)) @@ (150 :> Rat(7, 10)) @@ (450 :> Rat(15, 10))
                              @@ (900 :> Rat(23, 10)) @@ (1500 :> Rat(30, 10))
          [] c = "LMR-600" -> (50 :> Rat(2, 10)) @@ (150 :> Rat(5, 10)) @@ (450 :> Rat(11, 10))
                              @@ (900 :> Rat(17, 10)) @@ (1500 :> Rat(22, 10))]

CONNECTOR_LOSS_DB ==
    ("None" :> I(0)) @@ ("PL-259/SO-239" :> Rat(15, 100)) @@ ("N-Type" :> Rat(5, 100))
    @@ ("BNC" :> Rat(10, 100)) @@ ("SMA" :> Rat(8, 100))

COAX_VF_DB ==
    ("RG-58" :> Rat(66, 100)) @@ ("RG-213" :> Rat(66, 100)) @@ ("LMR-240" :> Rat(84, 100))
    @@ ("LMR-400" :> Rat(85, 100)) @@ ("LMR-600" :> Rat(87, 100))

\* dict.get(key, default)
Get(dict, key, default) == IF key \in DOMAIN dict THEN dict[key] ELSE default

\* ------------------------------------------------------------------------
\* Conversions
\* ------------------------------------------------------------------------
\* str.lower() on the unit strings of the model
Lower(u) ==
    CASE u = "Hz" -> "hz"   [] u = "kHz" -> "khz" [] u = "MHz" -> "mhz"
      [] u = "GHz" -> "ghz" [] u = "K" -> "k"     [] u = "M" -> "m"
      [] u = "G" -> "g"     [] u = "KM" -> "km"   [] u = "Mi" -> "mi"
      [] u = "FT" -> "ft"   [] u = "W" -> "w"     [] u = "mW" -> "mw"
      [] u = "MW" -> "mw"   [] u = "dBm" -> "dbm" [] u = "True" -> "true"
      [] u = "False" -> "false" [] OTHER -> u

freqToMhz(value, unit) ==
    LET u == Lower(unit)
    IN  IF u = "hz" THEN RDiv(value, I(1000000))
        ELSE IF u \in {"khz", "k"} THEN RDiv(value, I(1000))
        ELSE IF u \in {"mhz", "m"} THEN value
        ELSE IF u \in {"ghz", "g"} THEN RMul(value, I(1000))
        ELSE value

\* a variant that knows the four tags only, not the short forms k, m, g
freqToHz_tags_only(value, unit) ==
    LET u == Lower(unit)
    IN  IF u = "hz" THEN value
        ELSE IF u = "khz" THEN RMul(value, I(1000))
        ELSE IF u = "mhz" THEN RMul(value, I(1000000))
        ELSE IF u = "ghz" THEN RMul(value, I(1000000000))
        ELSE value

freqToHz(value, unit) ==
    LET u == Lower(unit)
    IN  IF u = "hz" THEN value
        ELSE IF u \in {"khz", "k"} THEN RMul(value, I(1000))
        ELSE IF u \in {"mhz", "m"} THEN RMul(value, I(1000000))
        ELSE IF u \in {"ghz", "g"} THEN RMul(value, I(1000000000))
        ELSE value

distToKm(value, unit) ==
    LET u == Lower(unit)
    IN  IF u = "km" THEN value
        ELSE IF u = "m" THEN RDiv(value, I(1000))
        ELSE IF u = "mi" THEN RMul(value, Rat(1609344, 1000000))
        ELSE IF u = "ft" THEN RDiv(value, Rat(328084, 100))
        ELSE value

\* a variant that guards the watts only: milliwatts at or below zero pass through
powerToDbm_mw_unguarded(value, unit) ==
    LET u == Lower(unit)
    IN  IF u = "dbm" THEN value
        ELSE IF u = "w"
             THEN IF RLt(I(0), value) THEN RMul(I(10), Log10(RMul(value, I(1000))))
                  ELSE I(-300)
        ELSE IF u = "mw"
             THEN IF RLt(I(0), value) THEN RMul(I(10), Log10(value)) ELSE value
        ELSE value

powerToDbm(value, unit) ==
    LET u == Lower(unit)
    IN  IF u = "dbm" THEN value
        ELSE IF u = "w"
             THEN IF RLt(I(0), value) THEN RMul(I(10), Log10(RMul(value, I(1000))))
                  ELSE I(-300)
        ELSE IF u = "mw"
             THEN IF RLt(I(0), value) THEN RMul(I(10), Log10(value)) ELSE I(-300)
        ELSE value

\* dbmToWatts(dbm) = 10 ** ((dbm - 30) / 10): its value is only rendered
\* (formatWatts); what the handler's control flow sees is whether it raises
dbmToWattsRaises(dbm) == Pow10Raises(RDiv(RSub(dbm, I(30)), I(10)))

\* ------------------------------------------------------------------------
\* RF math
\* ------------------------------------------------------------------------
\* a variant of the guard of fspl that lets a zero through (< for <=)
fsplRaises_strict(distanceKm, freqMhz) ==
    RLt(distanceKm, I(0)) \/ RLt(freqMhz, I(0))

fsplRaises(distanceKm, freqMhz) == RLe(distanceKm, I(0)) \/ RLe(freqMhz, I(0))

fspl(distanceKm, freqMhz) ==
    RAdd(RAdd(RMul(I(20), Log10(distanceKm)), RMul(I(20), Log10(freqMhz))),
         Rat(3244, 100))

\* ------------------------------------------------------------------------
\* History
\* ------------------------------------------------------------------------
\* CalcRecord, without its timestamp (time.time(), an input of the clock)
CalcRecord(category, title, inputs, outputs) ==
    [category |-> category, title |-> title, inputs |-> inputs, outputs |-> outputs]

\* a variant of the refresh that lists the newest record first
HistoryRows_newest_first(h) ==
    [i \in 1 .. Len(h) |-> <<h[Len(h) + 1 - i].category, h[Len(h) + 1 - i].title>>]

\* refresh_history_tab: one row per record, in order
HistoryRows(h) == [i \in 1 .. Len(h) |-> <<h[i].category, h[i].title>>]

\* a variant of add_history that appends the record twice
add_history_twice(category, title, inputs, outputs) ==
    /\ history' = Append(Append(history, CalcRecord(category, title, inputs, outputs)),
                         CalcRecord(category, title, inputs, outputs))
    /\ hist_tree' = HistoryRows(history')

\* add_history: append, save, refresh the view
add_history(category, title, inputs, outputs) ==
    /\ history' = Append(history, CalcRecord(category, title, inputs, outputs))
    /\ hist_tree' = HistoryRows(history')

\* a variant of the except clause that drops the newest record
Fail_drops_record(op, inp, msg) ==
    /\ last' = [op |-> op, inp |-> inp, ok |-> FALSE, error |-> msg]
    /\ history' = SubSeq(history, 1, Len(history) - 1)
    /\ hist_tree' = HistoryRows(history')

\* the except clause of a handler: messagebox.showerror("Error", str(e))
Fail(op, inp, msg) ==
    /\ last' = [op |-> op, inp |-> inp, ok |-> FALSE, error |-> msg]
    /\ UNCHANGED <<history, hist_tree>>

Ok(op, inp) == last' = [op |-> op, inp |-> inp, ok |-> TRUE, error |-> ""]

NoResult == [shown |-> FALSE]

\* ------------------------------------------------------------------------
\* RF link tab
\* ------------------------------------------------------------------------
\* a variant of the estimate without the upper clamp: max(0.0, avail)
Availability_unclamped(margin) ==
    IF RLt(margin, I(0)) THEN I(0)
    ELSE LET avail == RSub(I(1), Pow10(RDiv(RNeg(margin), I(10))))
         IN  RMax(I(0), avail)

Availability(margin) ==
    IF RLt(margin, I(0)) THEN I(0)
    ELSE LET avail == RSub(I(1), Pow10(RDiv(RNeg(margin), I(10))))
         IN  RMax(I(0), RMin(avail, Rat(99999, 100000)))

\* a variant of the sum that adds the receive-side loss instead of subtracting it
ReceivedPower_lrx_added(ptx_dbm, gtx, ltx, lfs, grx, lrx, miscLoss) ==
    RSub(RAdd(RAdd(RSub(RSub(RAdd(ptx_dbm, gtx), ltx), lfs), grx), lrx), miscLoss)

ReceivedPower(ptx_dbm, gtx, ltx, lfs, grx, lrx, miscLoss) ==
    RSub(RSub(RAdd(RSub(RSub(RAdd(ptx_dbm, gtx), ltx), lfs), grx), lrx), miscLoss)

\* The outcome of a try block that raised: the message of the exception
Raised(msg) == [error |-> msg, results |-> NoResult, inputs |-> <<>>, outputs |-> <<>>]

\* The outcome of a try block that ran to its end: the displayed values and
\* the inputs and outputs of the record handed to add_history
Done(results, inputs, outputs) ==
    [error |-> "", results |-> results, inputs |-> inputs, outputs |-> outputs]

\* the try block of calculate_rf
rf_try(inp) ==
    LET ptx_dbm == powerToDbm(inp.ptx_val, inp.ptx_unit)
        freqMhz == freqToMhz(inp.freq_val, inp.freq_unit)
        distanceKm == distToKm(inp.dist_val, inp.dist_unit)
        lfs == fspl(distanceKm, freqMhz)
        prx_dbm == ReceivedPower(ptx_dbm, inp.gtx, inp.ltx, lfs, inp.grx, inp.lrx,
                                 inp.misc_loss)
        margin == RSub(prx_dbm, inp.sensitivity)
        avail == Availability(margin)
    IN  IF fsplRaises(distanceKm, freqMhz)
        THEN Raised("Distance and frequency must be positive.")
        ELSE IF Log10Raises(distanceKm) \/ Log10Raises(freqMhz)
        THEN Raised("math domain error")
        ELSE IF dbmToWattsRaises(prx_dbm)
        THEN Raised("Numerical result out of range")
        ELSE Done([shown |-> TRUE, freqMhz |-> freqMhz, distanceKm |-> distanceKm,
                   ptx_dbm |-> ptx_dbm, gtx |-> inp.gtx, ltx |-> inp.ltx,
                   grx |-> inp.grx, lrx |-> inp.lrx, lfs |-> lfs,
                   miscLoss |-> inp.misc_loss, prx_dbm |-> prx_dbm,
                   sens |-> inp.sensitivity, margin |-> margin, avail |-> avail],
                  [ptx_dbm |-> ptx_dbm, gtx |-> inp.gtx, grx |-> inp.grx,
                   ltx |-> inp.ltx, lrx |-> inp.lrx, freqMhz |-> freqMhz,
                   distanceKm |-> distanceKm, miscLoss |-> inp.misc_loss,
                   sensitivity |-> inp.sensitivity],
                  [prx_dbm |-> prx_dbm, margin_db |-> margin, availability |-> avail])

calculate_rf(inp) ==
    \E r \in {rf_try(inp)} :
        /\ UNCHANGED <<friis_tree, friis_results, coax_results, smith_results,
                       fresnel_results, ant_results>>
        /\ IF r.error # ""
           THEN /\ Fail("calculate_rf", inp, r.error)
                /\ UNCHANGED rf_results
           ELSE /\ rf_results' = r.results
                /\ add_history("RF", "RF Link Budget", r.inputs, r.outputs)
                /\ Ok("calculate_rf", inp)


\* ------------------------------------------------------------------------
\* Coax loss interpolation
\* ------------------------------------------------------------------------
\* sorted(points.keys())
RECURSIVE Sorted(_)
Sorted(S) ==
    IF S = {} THEN <<>>
    ELSE LET m == CHOOSE x \in S : \A y \in S : x <= y
         IN  <<m>> \o Sorted(S \ {m})

\* a variant of the loop that divides the offset by f2 instead of f2 - f1
RECURSIVE InterpLoop_over_f2(_, _, _, _)
InterpLoop_over_f2(points, freqs, freq_mhz, i) ==
    IF i > Len(freqs) - 1
    THEN [loss |-> points[freqs[Len(freqs)]], branch |-> "fallthrough", seg |-> 0]
    ELSE LET f1 == freqs[i]
             f2 == freqs[i + 1]
         IN  IF RLe(I(f1), freq_mhz) /\ RLe(freq_mhz, I(f2))
             THEN LET l1 == points[f1]
                      l2 == points[f2]
                      t == RDiv(RSub(freq_mhz, I(f1)), I(f2))
                  IN  [loss |-> RAdd(l1, RMul(t, RSub(l2, l1))),
                       branch |-> "interp", seg |-> i]
             ELSE InterpLoop_over_f2(points, freqs, freq_mhz, i + 1)

\* a variant of the loop that interpolates from the upper end: l2 + t * (l1 - l2)
RECURSIVE InterpLoop_ends_swapped(_, _, _, _)
InterpLoop_ends_swapped(points, freqs, freq_mhz, i) ==
    IF i > Len(freqs) - 1
    THEN [loss |-> points[freqs[Len(freqs)]], branch |-> "fallthrough", seg |-> 0]
    ELSE LET f1 == freqs[i]
             f2 == freqs[i + 1]
         IN  IF RLe(I(f1), freq_mhz) /\ RLe(freq_mhz, I(f2))
             THEN LET l1 == points[f1]
                      l2 == points[f2]
                      t == RDiv(RSub(freq_mhz, I(f1)), I(f2 - f1))
                  IN  [loss |-> RAdd(l2, RMul(t, RSub(l1, l2))),
                       branch |-> "interp", seg |-> i]
             ELSE InterpLoop_ends_swapped(points, freqs, freq_mhz, i + 1)

\* the for loop of coax_loss_db_per_100ft from index i (1-based) on, and the
\* return that follows it
RECURSIVE InterpLoop(_, _, _, _)
InterpLoop(points, freqs, freq_mhz, i) ==
    IF i > Len(freqs) - 1
    THEN [loss |-> points[freqs[Len(freqs)]], branch |-> "fallthrough", seg |-> 0]
    ELSE LET f1 == freqs[i]
             f2 == freqs[i + 1]
         IN  IF RLe(I(f1), freq_mhz) /\ RLe(freq_mhz, I(f2))
             THEN LET l1 == points[f1]
                      l2 == points[f2]
                      t == RDiv(RSub(freq_mhz, I(f1)), I(f2 - f1))
                  IN  [loss |-> RAdd(l1, RMul(t, RSub(l2, l1))),
                       branch |-> "interp", seg |-> i]
             ELSE InterpLoop(points, freqs, freq_mhz, i + 1)

\* a variant of the lookup that answers a frequency at or above the highest
\* key with the loss of the first key (freqs[0] for freqs[-1])
coax_lookup_high_first(coax_type, freq_mhz) ==
    IF coax_type \notin DOMAIN COAX_DB \/ DOMAIN COAX_DB[coax_type] = {}
    THEN [loss |-> I(0), branch |-> "unknown", seg |-> 0]
    ELSE LET points == COAX_DB[coax_type]
             freqs == Sorted(DOMAIN points)
         IN  IF RLe(freq_mhz, I(freqs[1]))
             THEN [loss |-> points[freqs[1]], branch |-> "low", seg |-> 0]
             ELSE IF RLe(I(freqs[Len(freqs)]), freq_mhz)
             THEN [loss |-> points[freqs[1]], branch |-> "high", seg |-> 0]
             ELSE InterpLoop(points, freqs, freq_mhz, 1)

\* coax_loss_db_per_100ft, with the return statement that produced the value
coax_lookup(coax_type, freq_mhz) ==
    IF coax_type \notin DOMAIN COAX_DB \/ DOMAIN COAX_DB[coax_type] = {}
    THEN [loss |-> I(0), branch |-> "unknown", seg |-> 0]
    ELSE LET points == COAX_DB[coax_type]
             freqs == Sorted(DOMAIN points)
         IN  IF RLe(freq_mhz, I(freqs[1]))
             THEN [loss |-> points[freqs[1]], branch |-> "low", seg |-> 0]
             ELSE IF RLe(I(freqs[Len(freqs)]), freq_mhz)
             THEN [loss |-> points[freqs[Len(freqs)]], branch |-> "high", seg |-> 0]
             ELSE InterpLoop(points, freqs, freq_mhz, 1)

coax_loss_db_per_100ft(coax_type, freq_mhz) == coax_lookup(coax_type, freq_mhz).loss

\* ------------------------------------------------------------------------
\* Coax tab
\* ------------------------------------------------------------------------
\* a calculation that adds the loss of one connector whatever the count
coax_try_count_ignored(inp) ==
    LET freq_mhz == IF inp.freq_unit = "GHz" THEN RMul(inp.freq_val, I(1000))
                    ELSE inp.freq_val
        length_ft == IF inp.len_unit = "m" THEN RMul(inp.len_val, Rat(328084, 100000))
                     ELSE inp.len_val
        coax == inp.coax
        loss_100ft == coax_loss_db_per_100ft(coax, freq_mhz)
        loss == RMul(loss_100ft, RDiv(length_ft, I(100)))
        conn_loss_each == Get(CONNECTOR_LOSS_DB, inp.conn_type, I(0))
        conn_loss == conn_loss_each
        total == RAdd(loss, conn_loss)
        vf == Get(COAX_VF_DB, coax, Rat(66, 100))
    IN  Done([shown |-> TRUE, coax |-> coax, freq_mhz |-> freq_mhz,
              length_ft |-> length_ft, loss_100ft |-> loss_100ft, loss |-> loss,
              conn_type |-> inp.conn_type, conn_count |-> inp.conn_count,
              conn_loss |-> conn_loss, total |-> total, vf |-> vf],
             [coax |-> coax, freq_mhz |-> freq_mhz, length_ft |-> length_ft,
              conn_type |-> inp.conn_type, conn_count |-> inp.conn_count],
             [coax_loss_db |-> loss, connector_loss_db |-> conn_loss,
              total_loss_db |-> total, vf |-> vf])

\* the try block of calculate_coax
coax_try(inp) ==
    LET freq_mhz == IF inp.freq_unit = "GHz" THEN RMul(inp.freq_val, I(1000))
                    ELSE inp.freq_val
        length_ft == IF inp.len_unit = "m" THEN RMul(inp.len_val, Rat(328084, 100000))
                     ELSE inp.len_val
        coax == inp.coax
        loss_100ft == coax_loss_db_per_100ft(coax, freq_mhz)
        loss == RMul(loss_100ft, RDiv(length_ft, I(100)))
        conn_loss_each == Get(CONNECTOR_LOSS_DB, inp.conn_type, I(0))
        conn_loss == RMul(conn_loss_each, I(inp.conn_count))
        total == RAdd(loss, conn_loss)
        vf == Get(COAX_VF_DB, coax, Rat(66, 100))
    IN  Done([shown |-> TRUE, coax |-> coax, freq_mhz |-> freq_mhz,
              length_ft |-> length_ft, loss_100ft |-> loss_100ft, loss |-> loss,
              conn_type |-> inp.conn_type, conn_count |-> inp.conn_count,
              conn_loss |-> conn_loss, total |-> total, vf |-> vf],
             [coax |-> coax, freq_mhz |-> freq_mhz, length_ft |-> length_ft,
              conn_type |-> inp.conn_type, conn_count |-> inp.conn_count],
             [coax_loss_db |-> loss, connector_loss_db |-> conn_loss,
              total_loss_db |-> total, vf |-> vf])

calculate_coax(inp) ==
    \E r \in {coax_try(inp)} :
        /\ UNCHANGED <<friis_tree, rf_results, friis_results, smith_results,
                       fresnel_results, ant_results>>
        /\ IF r.error # ""
           THEN /\ Fail("calculate_coax", inp, r.error)
                /\ UNCHANGED coax_results
           ELSE /\ coax_results' = r.results
                /\ add_history("Feedline", "Coax Loss", r.inputs, r.outputs)
                /\ Ok("calculate_coax", inp)


\* ------------------------------------------------------------------------
\* Friis tab
\* ------------------------------------------------------------------------
\* str(bool), as the row stores the "Use Temp?" flag
StrBool(b) == IF b THEN "True" ELSE "False"

\* inp: the entry fields stage_gain, stage_nf, stage_temp, stage_use_temp.
\* The table holds the numbers as text and calculate_friis reads them back
\* with float(); the text of a float reads back as the same float, so a row
\* keeps the numbers.  The flag is kept as the text str() makes of it.
add_friis_stage(inp) ==
    LET idx == Len(friis_tree) + 1
    IN  /\ friis_tree' = Append(friis_tree,
               [stage |-> idx, g_db |-> inp.gain, nf_db |-> inp.nf,
                t_k |-> inp.temp, use_t |-> StrBool(inp.use_temp)])
        /\ last' = [op |-> "add_friis_stage", inp |-> inp, ok |-> TRUE, error |-> ""]
        /\ UNCHANGED <<history, hist_tree, rf_results, friis_results, coax_results,
                       smith_results, fresnel_results, ant_results>>

\* the rows of tree whose position is not in sel, in order
RECURSIVE DeleteRows(_, _, _)
DeleteRows(tree, sel, i) ==
    IF i > Len(tree) THEN <<>>
    ELSE (IF i \in sel THEN <<>> ELSE <<tree[i]>>) \o DeleteRows(tree, sel, i + 1)

\* a variant that leaves the Stage column of the remaining rows as it was
Renumber_skipped(tree) == tree

\* the second loop of remove_friis_stage: vals[0] = i
Renumber(tree) == [i \in 1 .. Len(tree) |-> [tree[i] EXCEPT !.stage = i]]

\* sel: the positions of the selected rows
remove_friis_stage(sel) ==
    /\ friis_tree' = Renumber(DeleteRows(friis_tree, sel, 1))
    /\ last' = [op |-> "remove_friis_stage", inp |-> sel, ok |-> TRUE, error |-> ""]
    /\ UNCHANGED <<history, hist_tree, rf_results, friis_results, coax_results,
                   smith_results, fresnel_results, ant_results>>

clear_friis_stages ==
    /\ friis_tree' = <<>>
    /\ last' = [op |-> "clear_friis_stages", inp |-> {}, ok |-> TRUE, error |-> ""]
    /\ UNCHANGED <<history, hist_tree, rf_results, friis_results, coax_results,
                   smith_results, fresnel_results, ant_results>>

\* the first loop of calculate_friis: the rows read back as (g_db, nf_db, t_k, use_t)
StagesOf(tree) ==
    [i \in 1 .. Len(tree) |->
        [g_db |-> tree[i].g_db, nf_db |-> tree[i].nf_db, t_k |-> tree[i].t_k,
         use_t |-> (Lower(tree[i].use_t) = "true")]]

\* G = [10**(g/10.0) for ...]
GainOf(st) == Pow10(RDiv(st.g_db, I(10)))

\* the noise factor appended to F for one stage
NoiseFactorOf(st) ==
    IF st.use_t THEN RAdd(I(1), RDiv(st.t_k, I(290)))
    ELSE Pow10(RDiv(st.nf_db, I(10)))

\* a variant of the loop that divides by the gain of the last stage before
\* stage i alone: gain_prod = G[i-1] for gain_prod *= G[i-1]
RECURSIVE FriisLoop_last_gain_only(_, _, _, _, _)
FriisLoop_last_gain_only(G, F, i, F_total, gain_prod) ==
    IF i > Len(F) - 1 THEN [raised |-> FALSE, F_total |-> F_total]
    ELSE LET gp == G[i]
         IN  IF gp = I(0) THEN [raised |-> TRUE, F_total |-> F_total]
             ELSE FriisLoop_last_gain_only(G, F, i + 1,
                            RAdd(F_total, RDiv(RSub(F[i + 1], I(1)), gp)), gp)

\* a variant of the loop that multiplies in the gain of stage i itself:
\* gain_prod *= G[i] for gain_prod *= G[i-1]
RECURSIVE FriisLoop_gain_of_next(_, _, _, _, _)
FriisLoop_gain_of_next(G, F, i, F_total, gain_prod) ==
    IF i > Len(F) - 1 THEN [raised |-> FALSE, F_total |-> F_total]
    ELSE LET gp == RMul(gain_prod, G[i + 1])
         IN  IF gp = I(0) THEN [raised |-> TRUE, F_total |-> F_total]
             ELSE FriisLoop_gain_of_next(G, F, i + 1,
                            RAdd(F_total, RDiv(RSub(F[i + 1], I(1)), gp)), gp)

\* the accumulation loop from Python index i on (F[0] is F[1] here):
\*     gain_prod *= G[i-1];  F_total += (F[i] - 1.0) / gain_prod
\* raised: the division found gain_prod = 0 (ZeroDivisionError)
RECURSIVE FriisLoop(_, _, _, _, _)
FriisLoop(G, F, i, F_total, gain_prod) ==
    IF i > Len(F) - 1 THEN [raised |-> FALSE, F_total |-> F_total]
    ELSE LET gp == RMul(gain_prod, G[i])
         IN  IF gp = I(0) THEN [raised |-> TRUE, F_total |-> F_total]
             ELSE FriisLoop(G, F, i + 1,
                            RAdd(F_total, RDiv(RSub(F[i + 1], I(1)), gp)), gp)

FriisTotal(G, F) == FriisLoop(G, F, 1, F[1], I(1))

\* _prod
RECURSIVE Prod(_, _)
Prod(arr, i) == IF i > Len(arr) THEN I(1) ELSE RMul(arr[i], Prod(arr, i + 1))

\* a variant of the test that lets an empty stage list through
NoStages_never(stages) == FALSE

\* if not stages
NoStages(stages) == Len(stages) = 0

\* the try block of calculate_friis, on the stages read from the table
friis_try(stages) ==
    LET n == Len(stages)
        G == [i \in 1 .. n |-> GainOf(stages[i])]
        F == [i \in 1 .. n |-> NoiseFactorOf(stages[i])]
        acc == FriisTotal(G, F)
        F_total == acc.F_total
        NF_total_db == RMul(I(10), Log10(F_total))
        T_total == RMul(RSub(F_total, I(1)), I(290))
        G_total_db == RMul(I(10), Log10(Prod(G, 1)))
    IN  IF NoStages(stages) THEN Raised("Add at least one stage.")
        ELSE IF n = 0 THEN Raised("list index out of range")
        ELSE IF \E i \in 1 .. n : Pow10Raises(RDiv(stages[i].g_db, I(10)))
        THEN Raised("Numerical result out of range")
        ELSE IF \E i \in 1 .. n :
                   ~stages[i].use_t /\ Pow10Raises(RDiv(stages[i].nf_db, I(10)))
        THEN Raised("Numerical result out of range")
        ELSE IF acc.raised THEN Raised("float division by zero")
        ELSE IF Log10Raises(F_total) THEN Raised("math domain error")
        ELSE IF Log10Raises(Prod(G, 1)) THEN Raised("math domain error")
        ELSE Done([shown |-> TRUE, G_total_db |-> G_total_db, F_total |-> F_total,
                   NF_total_db |-> NF_total_db, T_total |-> T_total],
                  [stages |-> stages],
                  [G_total_db |-> G_total_db, NF_total_db |-> NF_total_db,
                   T_total_K |-> T_total])

calculate_friis ==
    \E stages \in {StagesOf(friis_tree)} :
    \E r \in {friis_try(stages)} :
        /\ UNCHANGED <<friis_tree, rf_results, coax_results, smith_results,
                       fresnel_results, ant_results>>
        /\ IF r.error # ""
           THEN /\ Fail("calculate_friis", stages, r.error)
                /\ UNCHANGED friis_results
           ELSE /\ friis_results' = r.results
                /\ add_history("Receiver", "Friis Noise Figure", r.inputs, r.outputs)
                /\ Ok("calculate_friis", stages)


\* ------------------------------------------------------------------------
\* Smith / SWR tab
\* ------------------------------------------------------------------------
\* float("inf")
Inf == <<1, 0>>

\* math.pi, to two decimals
Pi == Rat(157, 50)

\* a suggestion that takes the low-pass branch for R <= Z0 instead of R < Z0
suggest_l_match_low_pass_at_equal(R, X, Z0, freq_mhz) ==
    LET f == RMul(freq_mhz, I(1000000))
        w == RMul(RMul(I(2), Pi), f)
        cancel == IF RLt(Rat(1, 1000000), (IF RLt(X, I(0)) THEN RNeg(X) ELSE X))
                  THEN (IF RLt(I(0), X) THEN "series capacitor" ELSE "series inductor")
                  ELSE "none"
        none == [raises |-> "", topology |-> "invalid", cancel |-> "none",
                 Q |-> I(0), series |-> I(0), shunt |-> I(0)]
    IN  IF RLe(R, I(0)) THEN none
        ELSE IF RLe(R, Z0)
        THEN LET Q == Sqrt(RSub(RDiv(Z0, R), I(1)))
                 Xs == RMul(Q, R)
                 Xp == RDiv(Z0, Q)
             IN  IF Q = I(0) \/ w = I(0)
                 THEN [none EXCEPT !.raises = "float division by zero"]
                 ELSE [raises |-> "", topology |-> "low-pass", cancel |-> cancel,
                       Q |-> Q, series |-> RDiv(Xs, w),
                       shunt |-> RDiv(I(1), RMul(w, Xp))]
        ELSE IF RLt(Z0, R)
        THEN IF Z0 = I(0) THEN [none EXCEPT !.raises = "float division by zero"]
             ELSE IF RLt(RSub(RDiv(R, Z0), I(1)), I(0))
             THEN [none EXCEPT !.raises = "math domain error"]
             ELSE LET Q == Sqrt(RSub(RDiv(R, Z0), I(1)))
                      Xs == RMul(Q, Z0)
                      Xp == RDiv(R, Q)
                  IN  IF Q = I(0) \/ RMul(w, Xs) = I(0)
                      THEN [none EXCEPT !.raises = "float division by zero"]
                      ELSE [raises |-> "", topology |-> "high-pass", cancel |-> cancel,
                            Q |-> Q, series |-> RDiv(I(1), RMul(w, Xs)),
                            shunt |-> RDiv(Xp, w)]
        ELSE [none EXCEPT !.topology = "matched", !.cancel = cancel]

\* suggest_l_match: the suggestion, or the exception it raises
suggest_l_match(R, X, Z0, freq_mhz) ==
    LET f == RMul(freq_mhz, I(1000000))
        w == RMul(RMul(I(2), Pi), f)
        cancel == IF RLt(Rat(1, 1000000), (IF RLt(X, I(0)) THEN RNeg(X) ELSE X))
                  THEN (IF RLt(I(0), X) THEN "series capacitor" ELSE "series inductor")
                  ELSE "none"
        none == [raises |-> "", topology |-> "invalid", cancel |-> "none",
                 Q |-> I(0), series |-> I(0), shunt |-> I(0)]
    IN  IF RLe(R, I(0)) THEN none
        ELSE IF RLt(R, Z0)
        THEN LET Q == Sqrt(RSub(RDiv(Z0, R), I(1)))
                 Xs == RMul(Q, R)
                 Xp == RDiv(Z0, Q)
             IN  IF Q = I(0) \/ w = I(0)
                 THEN [none EXCEPT !.raises = "float division by zero"]
                 ELSE [raises |-> "", topology |-> "low-pass", cancel |-> cancel,
                       Q |-> Q, series |-> RDiv(Xs, w),
                       shunt |-> RDiv(I(1), RMul(w, Xp))]
        ELSE IF RLt(Z0, R)
        THEN IF Z0 = I(0) THEN [none EXCEPT !.raises = "float division by zero"]
             ELSE IF RLt(RSub(RDiv(R, Z0), I(1)), I(0))
             THEN [none EXCEPT !.raises = "math domain error"]
             ELSE LET Q == Sqrt(RSub(RDiv(R, Z0), I(1)))
                      Xs == RMul(Q, Z0)
                      Xp == RDiv(R, Q)
                  IN  IF Q = I(0) \/ RMul(w, Xs) = I(0)
                      THEN [none EXCEPT !.raises = "float division by zero"]
                      ELSE [raises |-> "", topology |-> "high-pass", cancel |-> cancel,
                            Q |-> Q, series |-> RDiv(I(1), RMul(w, Xs)),
                            shunt |-> RDiv(Xp, w)]
        ELSE [none EXCEPT !.topology = "matched", !.cancel = cancel]

\* a reflection coefficient that leaves out the denominator ZL + Z0 and
\* divides by Z0 instead
Gamma_over_line(R, X, Z0) == <<RDiv(RSub(R, Z0), Z0), RDiv(X, Z0)>>

\* gamma = (ZL - Z0) / (ZL + Z0) with ZL = complex(R, X): its real and
\* imaginary part; defined when ZL + Z0 is not zero
Gamma(R, X, Z0) ==
    LET a == RSub(R, Z0)
        c == RAdd(R, Z0)
        den == RAdd(RMul(c, c), RMul(X, X))
    IN  <<RDiv(RAdd(RMul(a, c), RMul(X, X)), den),
          RDiv(RSub(RMul(X, c), RMul(a, X)), den)>>

\* a variant of the guard that tests mag != 1 instead of mag < 1
Swr_guard_at_one_only(mag) ==
    IF mag # I(1) THEN RDiv(RAdd(I(1), mag), RSub(I(1), mag)) ELSE Inf

\* swr = (1 + mag) / (1 - mag) if mag < 1 else float("inf")
Swr(mag) ==
    IF RLt(mag, I(1)) THEN RDiv(RAdd(I(1), mag), RSub(I(1), mag)) ELSE Inf

\* the try block of calculate_smith
smith_try(inp) ==
    LET R == inp.R
        X == inp.X
        Z0 == inp.Z0
        c == RAdd(R, Z0)
        den == RAdd(RMul(c, c), RMul(X, X))
        gamma == Gamma(R, X, Z0)
        mag == Sqrt(RAdd(RMul(gamma[1], gamma[1]), RMul(gamma[2], gamma[2])))
        swr == Swr(mag)
        match == suggest_l_match(R, X, Z0, inp.freq_mhz)
    IN  IF den = I(0) THEN Raised("complex division by zero")
        ELSE IF match.raises # "" THEN Raised(match.raises)
        ELSE Done([shown |-> TRUE, R |-> R, X |-> X, Z0 |-> Z0, gamma |-> gamma,
                   mag |-> mag, swr |-> swr, match |-> match],
                  [R |-> R, X |-> X, Z0 |-> Z0, freq_mhz |-> inp.freq_mhz],
                  [gamma_mag |-> mag, swr |-> swr])

calculate_smith(inp) ==
    \E r \in {smith_try(inp)} :
        /\ UNCHANGED <<friis_tree, rf_results, friis_results, coax_results,
                       fresnel_results, ant_results>>
        /\ IF r.error # ""
           THEN /\ Fail("calculate_smith", inp, r.error)
                /\ UNCHANGED smith_results
           ELSE /\ smith_results' = r.results
                /\ add_history("Match", "Smith/SWR", r.inputs, r.outputs)
                /\ Ok("calculate_smith", inp)

\* ------------------------------------------------------------------------
\* Fresnel tab
\* ------------------------------------------------------------------------
\* wavelengthMeters raises ValueError("Frequency must be positive.")
wavelengthMetersRaises(freqHz) == RLe(freqHz, I(0))

\* wavelengthMeters: c / freqHz with c = 299792458.0
wavelengthMeters(freqHz) == RDiv(I(299792458), freqHz)

\* a variant of the range check that lets the two end points through
PointOutOfRange_ends_allowed(pct) == ~(RLe(I(0), pct) /\ RLe(pct, I(1)))

\* not (0.0 < pct < 1.0)
PointOutOfRange(pct) == ~(RLt(I(0), pct) /\ RLt(pct, I(1)))

\* a variant of the clearance without the clamp to [0, 100]
Clearance_unclamped(obs, r1) ==
    IF RLt(I(0), r1) THEN RMul(RSub(I(1), RDiv(obs, r1)), I(100)) ELSE I(0)

\* max(0.0, min(100.0, (1 - obs/r1) * 100.0)) if r1>0 else 0.0
Clearance(obs, r1) ==
    IF RLt(I(0), r1)
    THEN RMax(I(0), RMin(I(100), RMul(RSub(I(1), RDiv(obs, r1)), I(100))))
    ELSE I(0)

\* the try block of calculate_fresnel
fresnel_try(inp) ==
    LET f_mhz == IF inp.freq_unit = "GHz" THEN RMul(inp.freq_val, I(1000)) ELSE inp.freq_val
        d_km == IF inp.dist_unit = "mi"
                THEN RMul(inp.dist_val, Rat(1609344, 1000000))
                ELSE inp.dist_val
        pct == RDiv(inp.point_pct, I(100))
        d1 == RMul(d_km, pct)
        d2 == RMul(d_km, RSub(I(1), pct))
        freqHz == RMul(f_mhz, I(1000000))
        lam == wavelengthMeters(freqHz)
        d1_m == RMul(d1, I(1000))
        d2_m == RMul(d2, I(1000))
        sum == RAdd(d1_m, d2_m)
        radicand == RDiv(RMul(RMul(lam, d1_m), d2_m), sum)
        r1 == Sqrt(radicand)
        obs == inp.obstacle_h
        clearance_pct == Clearance(obs, r1)
    IN  IF PointOutOfRange(pct)
        THEN Raised("Point % must be between 0 and 100 (exclusive).")
        ELSE IF wavelengthMetersRaises(freqHz) THEN Raised("Frequency must be positive.")
        ELSE IF sum = I(0) THEN Raised("float division by zero")
        ELSE IF RLt(radicand, I(0)) THEN Raised("math domain error")
        ELSE Done([shown |-> TRUE, f_mhz |-> f_mhz, d_km |-> d_km, pct |-> pct,
                   d1 |-> d1, d2 |-> d2, lam |-> lam, r1 |-> r1, obs |-> obs,
                   clearance_pct |-> clearance_pct],
                  [f_mhz |-> f_mhz, d_km |-> d_km, pct |-> pct, obs_m |-> obs],
                  [r1_m |-> r1, clearance_pct |-> clearance_pct])

calculate_fresnel(inp) ==
    \E r \in {fresnel_try(inp)} :
        /\ UNCHANGED <<friis_tree, rf_results, friis_results, coax_results,
                       smith_results, ant_results>>
        /\ IF r.error # ""
           THEN /\ Fail("calculate_fresnel", inp, r.error)
                /\ UNCHANGED fresnel_results
           ELSE /\ fresnel_results' = r.results
                /\ add_history("Path", "Fresnel Zone", r.inputs, r.outputs)
                /\ Ok("calculate_fresnel", inp)

\* ------------------------------------------------------------------------
\* Antenna tab
\* ------------------------------------------------------------------------
MATERIAL_VF ==
    ("Copper" :> Rat(95, 100)) @@ ("Aluminum" :> Rat(94, 100))
    @@ ("Steel" :> Rat(90, 100)) @@ ("Iron" :> Rat(88, 100))

\* a variant with 1.0 for a material that is not in the table
velocityFactor_default_one(material) == Get(MATERIAL_VF, material, I(1))

\* velocityFactor: MATERIAL_VF.get(material, 0.95)
velocityFactor(material) == Get(MATERIAL_VF, material, Rat(95, 100))

\* sum(list) of Python, from the left
RECURSIVE SumSeq(_)
SumSeq(s) == IF s = <<>> THEN I(0) ELSE RAdd(SumSeq(SubSeq(s, 1, Len(s) - 1)), s[Len(s)])

\* a variant without the floor of 0.44
DirectorFrac_no_floor(i) == RSub(Rat(48, 100), RMul(Rat(1, 100), I(i)))

\* the fraction of the wavelength of director i (from 0): 0.48 - 0.01 * i,
\* and 0.44 where that is less
DirectorFrac(i) ==
    LET frac == RSub(Rat(48, 100), RMul(Rat(1, 100), I(i)))
    IN  IF RLt(frac, Rat(44, 100)) THEN Rat(44, 100) ELSE frac

\* a variant that builds elements - 3 directors
yagiLengths_one_director_less(lam, elements, vf) ==
    [reflector |-> RMul(RMul(lam, Rat(53, 100)), vf),
     driven |-> RMul(RMul(lam, Rat(50, 100)), vf),
     directors |-> IF elements >= 3
                   THEN [i \in 1 .. (elements - 3) |->
                            RMul(RMul(lam, DirectorFrac(i - 1)), vf)]
                   ELSE <<>>]

\* yagiLengths: reflector, driven element and the list of directors
yagiLengths(lam, elements, vf) ==
    [reflector |-> RMul(RMul(lam, Rat(53, 100)), vf),
     driven |-> RMul(RMul(lam, Rat(50, 100)), vf),
     directors |-> IF elements >= 3
                   THEN [i \in 1 .. (elements - 2) |->
                            RMul(RMul(lam, DirectorFrac(i - 1)), vf)]
                   ELSE <<>>]

\* a variant of the guard of yagiSpacing that accepts two elements
yagiSpacingRaises_below_two(elements) == elements < 2

\* yagiSpacing raises ValueError("Yagi requires at least 3 elements.")
yagiSpacingRaises(elements) == elements < 3

\* yagiSpacing: the list of spacings and the boom length, their sum
yagiSpacing(lam, elements) ==
    LET spacings == <<RMul(Rat(20, 100), lam), RMul(Rat(15, 100), lam)>>
                    \o [i \in 1 .. (elements - 3) |-> RMul(Rat(15, 100), lam)]
    IN  [spacings |-> spacings, boomLen |-> SumSeq(spacings)]

\* the multiplier table of calculate_antenna
AntennaMults ==
    ("Quarter-wave ground plane" :> Rat(25, 100)) @@ ("Half-wave dipole" :> Rat(50, 100))
    @@ ("Five-eighths-wave vertical" :> Rat(625, 1000)) @@ ("Full-wave loop" :> I(1))
    @@ ("J-pole (basic)" :> Rat(75, 100)) @@ ("End-fed half-wave (basic)" :> Rat(50, 100))

\* the try block of calculate_antenna
antenna_try(inp) ==
    LET freqHz == freqToHz(inp.freq_val, inp.freq_unit)
        lam == wavelengthMeters(freqHz)
        vf == velocityFactor(inp.material)
        elements == inp.elements
        lengths == yagiLengths(lam, elements, vf)
        spacing == yagiSpacing(lam, elements)
        mult == Get(AntennaMults, inp.type, Rat(50, 100))
        ideal == RMul(lam, mult)
        adj == RMul(ideal, vf)
        inputs == [freqHz |-> freqHz, vf |-> vf, type |-> inp.type]
        outputs == [lambda_m |-> lam]
    IN  IF wavelengthMetersRaises(freqHz) THEN Raised("Frequency must be positive.")
        ELSE IF inp.type = "Yagi-Uda beam"
        THEN IF yagiSpacingRaises(elements)
             THEN Raised("Yagi requires at least 3 elements.")
             ELSE Done([shown |-> TRUE, type |-> inp.type, lam |-> lam, vf |-> vf,
                        refl |-> lengths.reflector, driv |-> lengths.driven,
                        dirs |-> lengths.directors, spacings |-> spacing.spacings,
                        boomLen |-> spacing.boomLen],
                       inputs, outputs)
        ELSE Done([shown |-> TRUE, type |-> inp.type, lam |-> lam, vf |-> vf,
                   ideal |-> ideal, adj |-> adj],
                  inputs, outputs)

calculate_antenna(inp) ==
    \E r \in {antenna_try(inp)} :
        /\ UNCHANGED <<friis_tree, rf_results, friis_results, coax_results,
                       smith_results, fresnel_results>>
        /\ IF r.error # ""
           THEN /\ Fail("calculate_antenna", inp, r.error)
                /\ UNCHANGED ant_results
           ELSE /\ ant_results' = r.results
                /\ add_history("Antenna", "Antenna Calc", r.inputs, r.outputs)
                /\ Ok("calculate_antenna", inp)


\* ------------------------------------------------------------------------
\* The state after construction
\* ------------------------------------------------------------------------
\* create_friis_tab sets the entry fields to 10, 2, 290, False and adds a stage
DefaultStage == [gain |-> I(10), nf |-> I(2), temp |-> I(290), use_temp |-> FALSE]

InitTabs ==
    /\ friis_tree = <<[stage |-> 1, g_db |-> DefaultStage.gain, nf_db |-> DefaultStage.nf,
                       t_k |-> DefaultStage.temp, use_t |-> StrBool(DefaultStage.use_temp)]>>
    /\ rf_results = NoResult
    /\ friis_results = NoResult
    /\ coax_results = NoResult
    /\ smith_results = NoResult
    /\ fresnel_results = NoResult
    /\ ant_results = NoResult
    /\ last = [op |-> "init", inp |-> {}, ok |-> TRUE, error |-> ""]

\* load_history found no file
Init ==
    /\ history = <<>>
    /\ hist_tree = HistoryRows(history)
    /\ InitTabs

\* ------------------------------------------------------------------------
\* Inputs
\* ------------------------------------------------------------------------
RFInput(ptx, gtx, freq, dist, sens) ==
    [ptx_val |-> ptx[1], ptx_unit |-> ptx[2], gtx |-> gtx, grx |-> I(2),
     ltx |-> I(1), lrx |-> I(-1), freq_val |-> freq[1], freq_unit |-> freq[2],
     dist_val |-> dist[1], dist_unit |-> dist[2], misc_loss |-> Rat(1, 2),
     sensitivity |-> sens]

RFInputs ==
    {RFInput(ptx, gtx, freq, dist, sens) :
        ptx \in {<<I(5), "W">>, <<I(0), "W">>, <<I(10), "dBm">>},
        gtx \in {I(-3), I(4000)},
        freq \in {<<I(1), "GHz">>, <<I(0), "MHz">>},
        dist \in {<<I(1), "mi">>, <<I(-5), "m">>},
        sens \in {I(-120), I(-60)}}

CoaxTypes == DOMAIN COAX_DB \cup {"RG-8X"}

QueryFreqs ==
    {<<I(50 * k), "MHz">> : k \in -1 .. MaxFreqStep}
    \cup {<<Rat(14652, 100), "MHz">>, <<I(1), "GHz">>, <<Rat(3, 2), "GHz">>}

CoaxInput(coax, freq) ==
    [coax |-> coax, freq_val |-> freq[1], freq_unit |-> freq[2],
     len_val |-> I(50), len_unit |-> "ft", conn_type |-> "PL-259/SO-239",
     conn_count |-> 2]

CoaxInputs == {CoaxInput(coax, freq) : coax \in CoaxTypes, freq \in QueryFreqs}

SmithInputs ==
    [R : {I(25), I(50), I(100), I(0), I(-50), I(-25)}, X : {I(0), I(10), I(-10)},
     Z0 : {I(50), I(75)}, freq_mhz : {Rat(1, 1000), I(0), Rat(-1, 1000)}]

FriisStageInputs ==
    {DefaultStage,
     [gain |-> I(20), nf |-> I(0), temp |-> I(145), use_temp |-> TRUE]}

FriisPairInputs ==
    {DefaultStage,
     [gain |-> I(20), nf |-> I(0), temp |-> I(290), use_temp |-> FALSE],
     [gain |-> I(0), nf |-> I(0), temp |-> I(290), use_temp |-> FALSE]}

\* ------------------------------------------------------------------------
\* Specifications
\* ------------------------------------------------------------------------
\* A call that would grow the history beyond the bound is left out; a
\* failing call is taken at any length.
NextRF == \E inp \in RFInputs : calculate_rf(inp) /\ Len(history') <= TabHistory

SpecRF == Init /\ [][NextRF]_vars

\* calculate_coax and calculate_smith are taken while the history is below the bound
NextCoax == \E inp \in CoaxInputs : Len(history) < TabHistory /\ calculate_coax(inp)

SpecCoax == Init /\ [][NextCoax]_vars

NextSmith == \E inp \in SmithInputs : Len(history) < TabHistory /\ calculate_smith(inp)

SpecSmith == Init /\ [][NextSmith]_vars

\* calculate_friis is taken while the history is below the bound, and on an
\* empty table (where it appends nothing) at any length
NextFriis ==
    \/ \E inp \in FriisStageInputs : Len(friis_tree) < MaxStages /\ add_friis_stage(inp)
    \/ \E sel \in SUBSET (1 .. Len(friis_tree)) : remove_friis_stage(sel)
    \/ clear_friis_stages
    \/ (Len(history) < TabHistory \/ friis_tree = <<>>) /\ calculate_friis

SpecFriis == Init /\ [][NextFriis]_vars

NextFriisPair ==
    \/ \E inp \in FriisPairInputs : Len(friis_tree) < MaxPair /\ add_friis_stage(inp)
    \/ \E sel \in SUBSET (1 .. Len(friis_tree)) : remove_friis_stage(sel)
    \/ clear_friis_stages
    \/ (Len(history) < TabHistory \/ friis_tree = <<>>) /\ calculate_friis

SpecFriisPair == Init /\ [][NextFriisPair]_vars


\* All the tabs together, on a few inputs each
RFFew ==
    {RFInput(<<I(5), "W">>, I(-3), <<I(1), "GHz">>, <<I(1), "mi">>, I(-120)),
     RFInput(<<I(5), "W">>, I(-3), <<I(0), "MHz">>, <<I(1), "mi">>, I(-120)),
     RFInput(<<I(5), "W">>, I(-3), <<I(-1), "kHz">>, <<I(1), "mi">>, I(-120))}

CoaxFew ==
    {CoaxInput("LMR-400", <<Rat(14652, 100), "MHz">>),
     CoaxInput("RG-58", <<I(0), "MHz">>),
     CoaxInput("RG-58", <<I(-50), "MHz">>)}

SmithFew ==
    {[R |-> I(25), X |-> I(10), Z0 |-> I(50), freq_mhz |-> Rat(1, 1000)],
     [R |-> I(25), X |-> I(10), Z0 |-> I(50), freq_mhz |-> I(0)],
     [R |-> I(25), X |-> I(10), Z0 |-> I(50), freq_mhz |-> Rat(-1, 1000)],
     [R |-> I(50), X |-> I(0), Z0 |-> I(50), freq_mhz |-> I(0)]}

FresnelFew ==
    {[freq_val |-> f, freq_unit |-> "MHz", dist_val |-> I(1), dist_unit |-> "km",
      point_pct |-> p, obstacle_h |-> I(10)] :
        f \in {Rat(299792458, 10000000), I(0)}, p \in {I(50)}}

AntennaFew ==
    {[freq_val |-> f, freq_unit |-> "MHz", type |-> "Yagi-Uda beam",
      material |-> "Copper", elements |-> n] :
        f \in {Rat(299792458, 1000000), I(0)}, n \in {3}}

Next ==
    \/ \E inp \in RFFew : calculate_rf(inp) /\ Len(history') <= MaxHistory
    \/ \E inp \in CoaxFew : calculate_coax(inp) /\ Len(history') <= MaxHistory
    \/ \E inp \in SmithFew : calculate_smith(inp) /\ Len(history') <= MaxHistory
    \/ \E inp \in FresnelFew : calculate_fresnel(inp) /\ Len(history') <= MaxHistory
    \/ \E inp \in AntennaFew : calculate_antenna(inp) /\ Len(history') <= MaxHistory
    \/ \E inp \in {DefaultStage} : Len(friis_tree) < MaxPair /\ add_friis_stage(inp)
    \/ \E sel \in SUBSET (1 .. Len(friis_tree)) : remove_friis_stage(sel)
    \/ clear_friis_stages
    \/ calculate_friis /\ Len(history') <= MaxHistory

Spec == Init /\ [][Next]_vars

\* ------------------------------------------------------------------------
\* Properties of the link budget tab (SpecRF)
\* ------------------------------------------------------------------------
\* the normalized distance and frequency of a link budget input
RFDistanceKm(inp) == distToKm(inp.dist_val, inp.dist_unit)

RFFreqMhz(inp) == freqToMhz(inp.freq_val, inp.freq_unit)

\* C1: a link budget call whose normalized distance or frequency is zero or
\* negative ends in the error "Distance and frequency must be positive.",
\* leaves the displayed result as it was and appends nothing to the history.
C1_NonPositiveFails ==
    [][ (/\ last'.op = "calculate_rf"
         /\ \/ RLe(RFDistanceKm(last'.inp), I(0))
            \/ RLe(RFFreqMhz(last'.inp), I(0)))
        => (/\ ~last'.ok
            /\ last'.error = "Distance and frequency must be positive."
            /\ rf_results' = rf_results
            /\ history' = history
            /\ hist_tree' = hist_tree) ]_vars

\* a call with a negative distance failed while an earlier result is on display
C1_Witness ==
    /\ last.op = "calculate_rf"
    /\ ~last.ok
    /\ RLt(RFDistanceKm(last.inp), I(0))
    /\ RLt(I(0), RFFreqMhz(last.inp))
    /\ rf_results.shown
    /\ Len(history) = 1

\* C10: after a successful link budget call the received power is
\* TX power (dBm) + TX gain + RX gain - (TX loss + FSPL + RX loss + misc loss)
\* and the margin is the received power minus the sensitivity, also when gains
\* or losses are negative; the record appended to the history holds both.
C10_ReceivedPowerAndMargin ==
    (last.op = "calculate_rf" /\ last.ok) =>
        LET inp == last.inp
            ptx == powerToDbm(inp.ptx_val, inp.ptx_unit)
            FSPL == fspl(RFDistanceKm(inp), RFFreqMhz(inp))
            gains == RAdd(RAdd(ptx, inp.gtx), inp.grx)
            losses == RAdd(RAdd(RAdd(inp.ltx, FSPL), inp.lrx), inp.misc_loss)
            prx == RSub(gains, losses)
        IN  /\ rf_results.shown
            /\ rf_results.prx_dbm = prx
            /\ rf_results.margin = RSub(prx, inp.sensitivity)
            /\ history[Len(history)].outputs.prx_dbm = prx
            /\ history[Len(history)].outputs.margin_db = RSub(prx, inp.sensitivity)

\* a successful call with a negative gain, a negative loss and a negative margin
C10_Witness ==
    /\ last.op = "calculate_rf"
    /\ last.ok
    /\ RLt(last.inp.gtx, I(0))
    /\ RLt(last.inp.lrx, I(0))
    /\ RLt(rf_results.margin, I(0))


\* ------------------------------------------------------------------------
\* Properties of the coax loss interpolation (SpecCoax)
\* ------------------------------------------------------------------------
\* a coax calculation on a type of the table has just displayed its result
CoaxShown ==
    /\ last.op = "calculate_coax"
    /\ last.ok
    /\ coax_results.shown
    /\ coax_results.coax \in DOMAIN COAX_DB

\* the lowest and the highest key of a loss table
LowKey(points) == CHOOSE k \in DOMAIN points : \A j \in DOMAIN points : k <= j

HighKey(points) == CHOOSE k \in DOMAIN points : \A j \in DOMAIN points : j <= k

\* the pairs of adjacent keys of a loss table
AdjacentKeys(points) ==
    {p \in (DOMAIN points) \X (DOMAIN points) :
        p[1] < p[2] /\ ~\E k \in DOMAIN points : p[1] < k /\ k < p[2]}

\* the frequency in MHz that a coax input asks for
QueryMhz(q) == IF q[2] = "GHz" THEN RMul(q[1], I(1000)) ELSE q[1]

\* C4: for a coax type of the table, a query at a key frequency gives the
\* tabulated loss of that key (an interior key through the interpolation
\* branch), a query at or below the lowest key gives the loss of the lowest
\* key, and a query at or above the highest key gives the loss of the highest.
C4_KeysAndClamps ==
    CoaxShown =>
        LET points == COAX_DB[coax_results.coax]
            f == coax_results.freq_mhz
            loss == coax_results.loss_100ft
            lo == LowKey(points)
            hi == HighKey(points)
        IN  /\ \A k \in DOMAIN points : f = I(k) => loss = points[k]
            /\ RLe(f, I(lo)) => loss = points[lo]
            /\ RLe(I(hi), f) => loss = points[hi]
            /\ \A k \in DOMAIN points \ {lo, hi} :
                   f = I(k) => coax_lookup(coax_results.coax, f).branch = "interp"

\* RG-213 was queried at its interior key 450 MHz and shows 2.6 dB per 100 ft
C4_Witness ==
    /\ CoaxShown
    /\ coax_results.coax = "RG-213"
    /\ coax_results.freq_mhz = I(450)
    /\ coax_results.loss_100ft = Rat(26, 10)

\* C5: for a coax type of the table and a query strictly between the lowest
\* and the highest key, the value is l1 + (f - f1) / (f2 - f1) * (l2 - l1) for
\* the adjacent keys f1 < f2 with f1 <= f <= f2, such a pair exists, and the
\* value comes from the interpolation branch, never from the return after
\* the loop.
C5_LinearBetweenKeys ==
    CoaxShown =>
        LET points == COAX_DB[coax_results.coax]
            f == coax_results.freq_mhz
            loss == coax_results.loss_100ft
            inside == RLt(I(LowKey(points)), f) /\ RLt(f, I(HighKey(points)))
            bracket == {p \in AdjacentKeys(points) : RLe(I(p[1]), f) /\ RLe(f, I(p[2]))}
        IN  inside =>
                /\ bracket # {}
                /\ \A p \in bracket :
                       loss = RAdd(points[p[1]],
                                   RMul(RDiv(RSub(f, I(p[1])), I(p[2] - p[1])),
                                        RSub(points[p[2]], points[p[1]])))
                /\ coax_lookup(coax_results.coax, f).branch = "interp"

\* LMR-400 was queried at 146.52 MHz, strictly between the keys 50 and 150
C5_Witness ==
    /\ CoaxShown
    /\ coax_results.coax = "LMR-400"
    /\ coax_results.freq_mhz = Rat(14652, 100)
    /\ RLt(COAX_DB["LMR-400"][50], coax_results.loss_100ft)
    /\ RLt(coax_results.loss_100ft, COAX_DB["LMR-400"][150])

\* C6: every table has losses that do not decrease with the key, and for a
\* coax type of the table the displayed loss at frequency f is at most the
\* loss the interpolator gives at any query frequency at or above f.
C6_Monotone ==
    /\ \A c \in DOMAIN COAX_DB : \A a, b \in DOMAIN COAX_DB[c] :
           a <= b => RLe(COAX_DB[c][a], COAX_DB[c][b])
    /\ CoaxShown =>
           \A q \in QueryFreqs :
               RLe(coax_results.freq_mhz, QueryMhz(q)) =>
                   RLe(coax_results.loss_100ft,
                       coax_loss_db_per_100ft(coax_results.coax, QueryMhz(q)))

\* RG-58 was queried between two keys, and at the highest key its loss is larger
C6_Witness ==
    /\ CoaxShown
    /\ coax_results.coax = "RG-58"
    /\ coax_results.freq_mhz = I(300)
    /\ RLt(coax_results.loss_100ft, coax_loss_db_per_100ft("RG-58", I(1500)))


\* ------------------------------------------------------------------------
\* Properties of the Friis tab (SpecFriis, SpecFriisPair)
\* ------------------------------------------------------------------------
\* a cascade calculation has just displayed its result; last.inp holds the
\* stages it read from the table
FriisShown == last.op = "calculate_friis" /\ last.ok /\ friis_results.shown

\* the linear gains and the noise factors of a stage list
GainsOf(stages) == [i \in 1 .. Len(stages) |-> GainOf(stages[i])]

NoiseFactorsOf(stages) == [i \in 1 .. Len(stages) |-> NoiseFactorOf(stages[i])]

\* G_1 * ... * G_(i-1)
RECURSIVE GainBefore(_, _)
GainBefore(G, i) == IF i <= 1 THEN I(1) ELSE RMul(GainBefore(G, i - 1), G[i - 1])

\* the sum over j = i .. n of (F_j - 1) / (G_1 * ... * G_(j-1))
RECURSIVE FriisTail(_, _, _)
FriisTail(G, F, i) ==
    IF i > Len(F) THEN I(0)
    ELSE RAdd(RDiv(RSub(F[i], I(1)), GainBefore(G, i)), FriisTail(G, F, i + 1))

FriisClosedForm(G, F) == RAdd(F[1], FriisTail(G, F, 2))

\* the gains in dB that replace the gain of the last stage in C7
OtherGainsDb == {I(0), I(13), I(-10)}

\* C7: after a successful cascade calculation on stages with linear gains G_i
\* and noise factors F_i, the displayed total noise factor is
\* F_1 + sum over i = 2 .. n of (F_i - 1) / (G_1 * ... * G_(i-1)), and the same
\* calculation on the stage list with another gain in its last stage gives
\* the same total noise factor.
C7_ClosedForm ==
    FriisShown =>
        LET stages == last.inp
            n == Len(stages)
        IN  /\ n >= 1
            /\ friis_results.F_total =
                   FriisClosedForm(GainsOf(stages), NoiseFactorsOf(stages))
            /\ \A g \in OtherGainsDb :
                   LET other == friis_try([stages EXCEPT ![n].g_db = g])
                   IN  /\ other.error = ""
                       /\ other.results.F_total = friis_results.F_total

\* three stages, the first and the last with different gains, were cascaded
\* and the later stages added noise to that of the first
C7_Witness ==
    /\ FriisShown
    /\ Len(last.inp) = 3
    /\ last.inp[1].g_db # last.inp[3].g_db
    /\ RLt(NoiseFactorOf(last.inp[1]), friis_results.F_total)

\* C9: a cascade calculation on an empty stage table ends in the error
\* "Add at least one stage.", leaves the displayed result as it was and
\* appends nothing to the history.
C9_EmptyFails ==
    [][ (last'.op = "calculate_friis" /\ friis_tree = <<>>)
        => (/\ ~last'.ok
            /\ last'.error = "Add at least one stage."
            /\ last'.inp = <<>>
            /\ friis_results' = friis_results
            /\ history' = history
            /\ hist_tree' = hist_tree
            /\ friis_tree' = friis_tree) ]_vars

\* the calculation failed on an emptied table while an earlier result is on
\* display and in the history
C9_Witness ==
    /\ last.op = "calculate_friis"
    /\ ~last.ok
    /\ last.error = "Add at least one stage."
    /\ friis_tree = <<>>
    /\ friis_results.shown
    /\ Len(history) = 1

\* the total noise factor the calculation gives for two stages in the other order
SwappedTotal(stages) == friis_try(<<stages[2], stages[1]>>).results.F_total

\* a cascade calculation on two stages has just displayed its result
PairShown == FriisShown /\ Len(last.inp) = 2

\* C8 as stated: after a successful calculation on two stages with unequal
\* gains, the calculation on the two stages in the other order gives a
\* different total noise factor.
C8_UnequalGainsSwapChanges ==
    (PairShown /\ GainOf(last.inp[1]) # GainOf(last.inp[2]))
        => friis_results.F_total # SwappedTotal(last.inp)

\* C8 amended: after a successful calculation on two stages, the calculation
\* on the two stages in the other order succeeds too, and it gives a
\* different total noise factor exactly when
\* (F_1 - 1) * (1 - 1/G_2) differs from (F_2 - 1) * (1 - 1/G_1); two noiseless
\* stages (F = 1) give the same total in either order whatever their gains.
C8_SwapChangesIff ==
    PairShown =>
        LET G == GainsOf(last.inp)
            F == NoiseFactorsOf(last.inp)
            lhs == RMul(RSub(F[1], I(1)), RSub(I(1), RDiv(I(1), G[2])))
            rhs == RMul(RSub(F[2], I(1)), RSub(I(1), RDiv(I(1), G[1])))
        IN  /\ friis_try(<<last.inp[2], last.inp[1]>>).error = ""
            /\ (friis_results.F_total # SwappedTotal(last.inp)) <=> (lhs # rhs)
            /\ (F[1] = I(1) /\ F[2] = I(1)) =>
                   friis_results.F_total = SwappedTotal(last.inp)

\* a noisy 10 dB stage followed by a noiseless 20 dB stage was cascaded; the
\* other order gives a smaller total noise factor
C8_Witness ==
    /\ PairShown
    /\ GainOf(last.inp[1]) # GainOf(last.inp[2])
    /\ RLt(SwappedTotal(last.inp), friis_results.F_total)


\* ------------------------------------------------------------------------
\* Properties of the error handling of the calculators (Spec, SpecSmith)
\* ------------------------------------------------------------------------
\* the frequency in MHz of the last call of a calculator that takes one
LastFreqMhz ==
    CASE last.op = "calculate_rf" -> RFFreqMhz(last.inp)
      [] last.op = "calculate_coax" -> QueryMhz(<<last.inp.freq_val, last.inp.freq_unit>>)
      [] last.op = "calculate_smith" -> last.inp.freq_mhz
      [] last.op = "calculate_fresnel" ->
            IF last.inp.freq_unit = "GHz" THEN RMul(last.inp.freq_val, I(1000))
            ELSE last.inp.freq_val
      [] last.op = "calculate_antenna" -> freqToMhz(last.inp.freq_val, last.inp.freq_unit)

\* C2: a call of a calculator that takes a frequency (link budget, Fresnel
\* zone, feedline loss, impedance/matching, antenna dimensions) with a zero
\* or negative frequency ends in an error outcome, never in a successful
\* result.
C2_NonPositiveFrequencyFails ==
    (/\ last.op \in {"calculate_rf", "calculate_coax", "calculate_smith",
                     "calculate_fresnel", "calculate_antenna"}
     /\ RLe(LastFreqMhz, I(0)))
        => ~last.ok

\* C3: a matching calculation whose load resistance R is zero or negative
\* ends in an error outcome: it displays no result and appends no history
\* record.
C3_NonPositiveRFails ==
    (last.op = "calculate_smith" /\ RLe(last.inp.R, I(0)))
        => (~last.ok /\ ~smith_results.shown /\ history = <<>>)


\* ------------------------------------------------------------------------
\* The link budget tab over a sweep of the link margin (SpecAvail)
\* ------------------------------------------------------------------------
\* the link margins swept, in dB
MarginGrid == {I(k) : k \in -5 .. MaxMarginStep}

\* 1 km at 1 MHz (FSPL 32.44 dB) with gains and losses that cancel it, so the
\* received power is ptx dBm; the sensitivity entered is margin dB below it
AvailInput(ptx, margin) ==
    RFInput(<<ptx, "dBm">>, Rat(3094, 100), <<I(1), "MHz">>, <<I(1), "km">>,
            RSub(ptx, margin))

AvailInputs == {AvailInput(ptx, m) : ptx \in {I(0), I(10)}, m \in MarginGrid}

NextAvail == \E inp \in AvailInputs : Len(history) < TabHistory /\ calculate_rf(inp)

SpecAvail == Init /\ [][NextAvail]_vars

\* C11: after a successful link budget call the availability shown and
\* recorded lies in [0, 0.99999], is 0 when the margin is negative or zero,
\* and is at most the availability of every margin at or above the margin
\* of the call.
C11_AvailabilityRange ==
    (last.op = "calculate_rf" /\ last.ok) =>
        LET a == rf_results.avail
            m == rf_results.margin
        IN  /\ rf_results.shown
            /\ history[Len(history)].outputs.availability = a
            /\ RLe(I(0), a) /\ RLe(a, Rat(99999, 100000))
            /\ RLe(m, I(0)) => a = I(0)
            /\ \A k \in MarginGrid : RLe(m, k) => RLe(a, Availability(k))

\* a call with a margin of 60 dB shows the clamped availability 0.99999
C11_Witness ==
    /\ last.op = "calculate_rf"
    /\ last.ok
    /\ rf_results.margin = I(60)
    /\ rf_results.avail = Rat(99999, 100000)


\* ------------------------------------------------------------------------
\* The Smith / SWR tab: reflection, SWR and the L-match suggestion
\* ------------------------------------------------------------------------
\* the last call was calculate_smith and it completed
SmithShown == last.op = "calculate_smith" /\ last.ok /\ smith_results.shown

C13_SwrOrSentinel ==
    (last.op = "calculate_smith" /\ RLt(I(0), last.inp.freq_mhz))
        => /\ SmithShown
           /\ LET mag == smith_results.mag
              IN  smith_results.swr =
                      IF RLt(mag, I(1))
                      THEN RDiv(RAdd(I(1), mag), RSub(I(1), mag))
                      ELSE Inf

\* ------------------------------------------------------------------------
\* The Smith / SWR tab over line impedances of either sign (SpecMatch)
\* ------------------------------------------------------------------------
\* loads of positive resistance against positive, zero and negative Z0
MatchInputs ==
    [R : {I(25), I(50), I(75), I(100), I(200)}, X : {I(0), I(10), I(-10)},
     Z0 : {I(50), I(75), I(0), I(-50)}, freq_mhz : {Rat(1, 1000), I(0)}]

NextMatch == \E inp \in MatchInputs : Len(history) < TabHistory /\ calculate_smith(inp)

SpecMatch == Init /\ [][NextMatch]_vars

\* the last call completed and its suggestion is the one topology that R
\* against Z0 calls for, with Q real, not zero, and Q^2 the impedance ratio
\* less one (to the two decimals the square root is carried to)
MatchSelected ==
    /\ SmithShown
    /\ LET R == smith_results.R
           Z0 == smith_results.Z0
           s == smith_results.match
           ratio == IF RLt(R, Z0) THEN RDiv(Z0, R) ELSE RDiv(R, Z0)
           next == RAdd(s.Q, Rat(1, 100))
       IN  /\ s.topology \in {"low-pass", "high-pass", "matched"}
           /\ s.topology = "low-pass" <=> RLt(R, Z0)
           /\ s.topology = "high-pass" <=> RLt(Z0, R)
           /\ s.topology = "matched" <=> R = Z0
           /\ s.topology = "matched" => (s.series = I(0) /\ s.shunt = I(0))
           /\ s.topology # "matched" =>
                  /\ RLt(I(0), s.Q)
                  /\ RLe(RMul(s.Q, s.Q), RSub(ratio, I(1)))
                  /\ RLt(RSub(ratio, I(1)), RMul(next, next))

\* C14 as stated: for every R > 0, whatever Z0, a matching calculation at a
\* positive frequency suggests exactly one topology, low-pass iff R < Z0,
\* high-pass iff R > Z0, matched iff R = Z0, with Q real and not zero.
C14_AnyLineImpedance ==
    (/\ last.op = "calculate_smith"
     /\ RLt(I(0), last.inp.R)
     /\ RLt(I(0), last.inp.freq_mhz))
        => MatchSelected

\* C14, amended: the same for every R > 0 and every Z0 > 0.
C14_OneTopology ==
    (/\ last.op = "calculate_smith"
     /\ RLt(I(0), last.inp.R)
     /\ RLt(I(0), last.inp.Z0)
     /\ RLt(I(0), last.inp.freq_mhz))
        => MatchSelected

C14_Witness ==
    /\ SmithShown
    /\ smith_results.R = I(100) /\ smith_results.Z0 = I(50)
    /\ smith_results.match.topology = "high-pass"
    /\ smith_results.match.Q = I(1)

\* ------------------------------------------------------------------------
\* The Fresnel tab (SpecFresnel)
\* ------------------------------------------------------------------------
\* the entry fields of the tab
FresnelInput(freq, dist, pct, obs) ==
    [freq_val |-> freq[1], freq_unit |-> freq[2], dist_val |-> dist[1],
     dist_unit |-> dist[2], point_pct |-> pct, obstacle_h |-> obs]

\* 29.9792458 MHz (a wavelength of 10 m), 1.199169832 GHz (1/4 m), and a
\* zero and a negative frequency
FresnelFreqs ==
    {<<Rat(299792458, 10000000), "MHz">>, <<Rat(1199169832, 1000000000), "GHz">>,
     <<I(0), "MHz">>, <<I(-1), "GHz">>}

FresnelPcts == {I(50), I(10), I(0), I(100), I(-10), I(150)}

FresnelObstacles == {I(0), I(-5), I(10), I(30), I(50), I(200)}

\* every frequency, distance and percentage with no obstacle and with a high
\* one; the obstacles in turn on the paths that have a Fresnel radius
FresnelInputs ==
    {FresnelInput(f, d, p, o) :
        f \in FresnelFreqs, d \in {<<I(1), "km">>, <<I(0), "km">>, <<I(-1), "km">>},
        p \in FresnelPcts, o \in {I(0), I(200)}}
    \cup {FresnelInput(f, <<I(1), "km">>, p, o) :
            f \in {<<Rat(299792458, 10000000), "MHz">>,
                   <<Rat(1199169832, 1000000000), "GHz">>},
            p \in {I(50), I(10)}, o \in FresnelObstacles}
    \cup {FresnelInput(<<Rat(1199169832, 1000000000), "GHz">>, <<Rat(1, 10), "mi">>,
                       I(50), o) : o \in FresnelObstacles}

\* calls with the point at or beyond an end of the path
FresnelRejected ==
    {FresnelInput(f, d, p, I(0)) :
        f \in {<<Rat(299792458, 10000000), "MHz">>, <<I(0), "MHz">>},
        d \in {<<I(1), "km">>, <<I(0), "km">>},
        p \in {I(0), I(100), I(-10), I(150)}}

\* Calls stop when the history holds TabHistory records, except the calls
\* of FresnelRejected, which are made at every length of the history.
NextFresnel ==
    \/ \E inp \in FresnelInputs : Len(history) < TabHistory /\ calculate_fresnel(inp)
    \/ \E inp \in FresnelRejected : calculate_fresnel(inp)

SpecFresnel == Init /\ [][NextFresnel]_vars

\* C15: a Fresnel call whose point percentage is <= 0 or >= 100 ends in the
\* error "Point % must be between 0 and 100 (exclusive).", whatever the
\* frequency, distance and obstacle; the result shown and the history stay
\* as they were.
C15_PointOutOfRangeFails ==
    [][(/\ last'.op = "calculate_fresnel"
        /\ (RLe(last'.inp.point_pct, I(0)) \/ RLe(I(100), last'.inp.point_pct)))
          => /\ ~last'.ok
             /\ last'.error = "Point % must be between 0 and 100 (exclusive)."
             /\ fresnel_results' = fresnel_results
             /\ history' = history
             /\ hist_tree' = hist_tree]_vars

C15_Witness ==
    /\ last.op = "calculate_fresnel" /\ ~last.ok
    /\ last.inp.point_pct = I(100)
    /\ last.inp.freq_val = I(0)
    /\ last.error = "Point % must be between 0 and 100 (exclusive)."
    /\ Len(history) = 1 /\ fresnel_results.shown

\* C16: after a successful Fresnel call the clearance shown and recorded
\* lies in [0, 100]; it is 100 when the obstacle height is zero or negative,
\* 0 when the obstacle height is r1 or more, and (1 - obstacle/r1) * 100 in
\* between.
C16_ClearanceClamped ==
    (last.op = "calculate_fresnel" /\ last.ok) =>
        LET c == fresnel_results.clearance_pct
            r1 == fresnel_results.r1
            obs == last.inp.obstacle_h
        IN  /\ fresnel_results.shown
            /\ history[Len(history)].outputs.clearance_pct = c
            /\ history[Len(history)].outputs.r1_m = r1
            /\ RLe(I(0), c) /\ RLe(c, I(100))
            /\ RLe(obs, I(0)) => c = I(100)
            /\ RLe(r1, obs) => c = I(0)
            /\ (RLt(I(0), obs) /\ RLt(obs, r1))
                 => c = RMul(RSub(I(1), RDiv(obs, r1)), I(100))

C16_Witness ==
    /\ last.op = "calculate_fresnel" /\ last.ok
    /\ fresnel_results.r1 = I(50)
    /\ last.inp.obstacle_h = I(10)
    /\ fresnel_results.clearance_pct = I(80)

\* ------------------------------------------------------------------------
\* The coax tab over lengths and connectors (SpecFeed)
\* ------------------------------------------------------------------------
\* the entry fields of the tab
FeedInput(coax, freq, len, conn_type, conn_count) ==
    [coax |-> coax, freq_val |-> freq[1], freq_unit |-> freq[2],
     len_val |-> len[1], len_unit |-> len[2], conn_type |-> conn_type,
     conn_count |-> conn_count]

\* "TNC" is not a key of CONNECTOR_LOSS_DB, "RG-8X" not one of COAX_DB
FeedInputs ==
    {FeedInput(c, f, l, t, n) :
        c \in {"LMR-400", "RG-8X"},
        f \in {<<I(100), "MHz">>, <<I(1), "GHz">>},
        l \in {<<I(50), "ft">>, <<I(10), "m">>, <<I(0), "ft">>},
        t \in {"None", "PL-259/SO-239", "N-Type", "TNC"},
        n \in {0, 1, 2}}

NextFeed == \E inp \in FeedInputs : Len(history) < TabHistory /\ calculate_coax(inp)

SpecFeed == Init /\ [][NextFeed]_vars

\* the frequency in MHz and the length in feet of the last coax call, from
\* its entry fields
FeedFreqMhz ==
    IF last.inp.freq_unit = "GHz" THEN RMul(last.inp.freq_val, I(1000))
    ELSE last.inp.freq_val

FeedLengthFt ==
    IF last.inp.len_unit = "m" THEN RMul(last.inp.len_val, Rat(328084, 100000))
    ELSE last.inp.len_val

\* C17: every feedline call completes with coax loss = loss per 100 ft at
\* the frequency in MHz * length in feet / 100, connector loss = loss of the
\* chosen connector type * count, and total = coax loss + connector loss;
\* with connector type "None" or count 0 the total is the coax loss.
C17_FeedlineLoss ==
    (last.op = "calculate_coax") =>
        LET r == coax_results
            rec == history[Len(history)].outputs
            each == IF last.inp.conn_type \in DOMAIN CONNECTOR_LOSS_DB
                    THEN CONNECTOR_LOSS_DB[last.inp.conn_type] ELSE I(0)
        IN  /\ last.ok /\ r.shown
            /\ r.loss_100ft = coax_loss_db_per_100ft(last.inp.coax, FeedFreqMhz)
            /\ r.loss = RDiv(RMul(r.loss_100ft, FeedLengthFt), I(100))
            /\ r.conn_loss = RMul(each, I(last.inp.conn_count))
            /\ r.total = RAdd(r.loss, r.conn_loss)
            /\ (last.inp.conn_type = "None" \/ last.inp.conn_count = 0) => r.total = r.loss
            /\ rec.coax_loss_db = r.loss
            /\ rec.connector_loss_db = r.conn_loss
            /\ rec.total_loss_db = r.total

C17_Witness ==
    /\ last.op = "calculate_coax" /\ last.ok
    /\ last.inp.coax = "LMR-400" /\ last.inp.len_unit = "m"
    /\ last.inp.conn_type = "N-Type" /\ last.inp.conn_count = 2
    /\ coax_results.loss_100ft = Rat(1, 2)
    /\ coax_results.conn_loss = Rat(1, 10)
    /\ coax_results.total = RAdd(Rat(82021, 500000), Rat(1, 10))

\* ------------------------------------------------------------------------
\* The antenna tab (SpecAntenna)
\* ------------------------------------------------------------------------
\* the entry fields of the tab
AntennaInput(freq, type, material, elements) ==
    [freq_val |-> freq[1], freq_unit |-> freq[2], type |-> type,
     material |-> material, elements |-> elements]

\* 299.792458 MHz is a wavelength of 1 m, 29979245.8 Hz one of 10 m
AntennaFreqs ==
    {<<Rat(299792458, 1000000), "MHz">>, <<Rat(299792458, 10), "Hz">>, <<I(0), "MHz">>}

\* "Brass" is not a key of MATERIAL_VF, "Discone" not a type of the tab
AntennaInputs ==
    {AntennaInput(f, "Yagi-Uda beam", m, n) :
        f \in AntennaFreqs, m \in {"Copper", "Steel"}, n \in -1 .. MaxElements}
    \cup {AntennaInput(<<Rat(299792458, 1000000), "MHz">>, t, m, 3) :
            t \in DOMAIN AntennaMults \cup {"Discone"},
            m \in DOMAIN MATERIAL_VF \cup {"Brass"}}

\* Yagi calls with fewer than three elements
AntennaRejected ==
    {AntennaInput(f, "Yagi-Uda beam", "Copper", n) :
        f \in {<<Rat(299792458, 1000000), "MHz">>, <<I(0), "MHz">>}, n \in -1 .. 2}

\* Calls stop when the history holds TabHistory records, except the calls
\* of AntennaRejected, which are made at every length of the history.
NextAntenna ==
    \/ \E inp \in AntennaInputs : Len(history) < TabHistory /\ calculate_antenna(inp)
    \/ \E inp \in AntennaRejected : calculate_antenna(inp)

SpecAntenna == Init /\ [][NextAntenna]_vars

\* the wavelength and the velocity factor of the last antenna call, from its
\* entry fields (for a positive frequency)
AntennaLam == wavelengthMeters(freqToHz(last.inp.freq_val, last.inp.freq_unit))

AntennaVf == velocityFactor(last.inp.material)

\* C19: for an element count below 3 (0 and negative counts included)
\* yagiLengths returns an empty list of directors, and the Yagi calculation
\* ends in an error: the result shown and the history stay as they were.
C19_FewElementsFail ==
    [][(/\ last'.op = "calculate_antenna"
        /\ last'.inp.type = "Yagi-Uda beam"
        /\ last'.inp.elements < 3)
          => /\ yagiLengths(I(1), last'.inp.elements, Rat(95, 100)).directors = <<>>
             /\ ~last'.ok
             /\ last'.error \in {"Yagi requires at least 3 elements.",
                                 "Frequency must be positive."}
             /\ RLt(I(0), last'.inp.freq_val)
                  => last'.error = "Yagi requires at least 3 elements."
             /\ ant_results' = ant_results
             /\ history' = history
             /\ hist_tree' = hist_tree]_vars

C19_Witness ==
    /\ last.op = "calculate_antenna" /\ ~last.ok
    /\ last.inp.type = "Yagi-Uda beam" /\ last.inp.elements = 0
    /\ last.error = "Yagi requires at least 3 elements."
    /\ Len(history) = 1 /\ ant_results.shown

\* C20: a Yagi calculation with n >= 3 elements shows n - 2 directors and
\* n - 1 spacings, and a boom length of 0.20 lam + 0.15 lam * (n - 2), the
\* sum of the spacings; with n = 3 the one director is 0.48 lam * vf long
\* and the boom 0.35 lam.
C20_YagiCounts ==
    (/\ last.op = "calculate_antenna" /\ last.ok
     /\ last.inp.type = "Yagi-Uda beam")
        => LET n == last.inp.elements
               r == ant_results
           IN  /\ n >= 3
               /\ r.shown
               /\ Len(r.dirs) = n - 2
               /\ Len(r.spacings) = n - 1
               /\ r.boomLen = RAdd(RMul(Rat(20, 100), AntennaLam),
                                   RMul(RMul(Rat(15, 100), AntennaLam), I(n - 2)))
               /\ r.boomLen = SumSeq(r.spacings)
               /\ n = 3 => /\ r.dirs = <<RMul(RMul(Rat(48, 100), AntennaLam), AntennaVf)>>
                           /\ r.boomLen = RMul(Rat(35, 100), AntennaLam)

C20_Witness ==
    /\ last.op = "calculate_antenna" /\ last.ok
    /\ last.inp.type = "Yagi-Uda beam" /\ last.inp.elements = MaxElements
    /\ Len(ant_results.dirs) = MaxElements - 2
    /\ ant_results.dirs[MaxElements - 2] = RMul(Rat(44, 100), RMul(AntennaLam, AntennaVf))
    /\ Len(ant_results.spacings) = MaxElements - 1

\* ------------------------------------------------------------------------
\* The coax and antenna tabs over names outside the tables (SpecNames)
\* ------------------------------------------------------------------------
\* "RG-8X" and "Belden 9913" are not keys of COAX_DB or COAX_VF_DB, "TNC" is
\* not a key of CONNECTOR_LOSS_DB
NamesCoaxInputs ==
    {FeedInput(c, f, <<I(50), "ft">>, t, 2) :
        c \in {"RG-8X", "Belden 9913"}, f \in QueryFreqs, t \in {"TNC", "N-Type"}}
    \cup {FeedInput("LMR-400", <<I(100), "MHz">>, <<I(50), "ft">>, t, 2) :
            t \in {"TNC", "N-Type"}}

\* "Brass" and the empty string are not keys of MATERIAL_VF
NamesAntennaInputs ==
    {AntennaInput(<<Rat(299792458, 1000000), "MHz">>, t, m, 3) :
        t \in {"Half-wave dipole", "Yagi-Uda beam"},
        m \in {"Brass", "", "Copper", "Iron"}}

NextNames ==
    \/ \E inp \in NamesCoaxInputs : Len(history) < TabHistory /\ calculate_coax(inp)
    \/ \E inp \in NamesAntennaInputs : Len(history) < TabHistory /\ calculate_antenna(inp)

SpecNames == Init /\ [][NextNames]_vars

\* C18: a call with a name that is in no table completes with the default:
\* a coax type outside COAX_DB has 0 loss per 100 ft at every frequency and
\* velocity factor 0.66, a connector type outside CONNECTOR_LOSS_DB has no
\* connector loss, a material outside MATERIAL_VF has velocity factor 0.95.
C18_UnknownNamesDefault ==
    /\ (last.op = "calculate_coax") =>
          LET rec == history[Len(history)].outputs
          IN  /\ last.ok /\ coax_results.shown
              /\ last.inp.coax \notin DOMAIN COAX_DB =>
                    /\ coax_results.loss_100ft = I(0)
                    /\ coax_results.loss = I(0)
                    /\ rec.coax_loss_db = I(0)
              /\ last.inp.coax \notin DOMAIN COAX_VF_DB =>
                    /\ coax_results.vf = Rat(66, 100)
                    /\ rec.vf = Rat(66, 100)
              /\ last.inp.conn_type \notin DOMAIN CONNECTOR_LOSS_DB =>
                    /\ coax_results.conn_loss = I(0)
                    /\ rec.connector_loss_db = I(0)
    /\ (last.op = "calculate_antenna" /\ last.inp.material \notin DOMAIN MATERIAL_VF) =>
          /\ last.ok /\ ant_results.shown
          /\ ant_results.vf = Rat(95, 100)
          /\ history[Len(history)].inputs.vf = Rat(95, 100)

C18_Witness ==
    /\ last.op = "calculate_coax" /\ last.ok
    /\ last.inp.coax = "RG-8X" /\ last.inp.conn_type = "TNC"
    /\ last.inp.freq_val = I(450)
    /\ coax_results.loss_100ft = I(0)
    /\ coax_results.total = I(0)
    /\ coax_results.vf = Rat(66, 100)

\* C21: after a Yagi calculation director i (from 0) is lam * vf times
\* max(0.44, 0.48 - 0.01 * i), that is 0.48, 0.47, 0.46, 0.45 for i = 0 .. 3
\* and 0.44 from i = 4 on; the director lengths do not increase with i, every
\* director is shorter than the driven element (0.50 lam * vf) and that one
\* shorter than the reflector (0.53 lam * vf).
C21_DirectorFractions ==
    (/\ last.op = "calculate_antenna" /\ last.ok
     /\ last.inp.type = "Yagi-Uda beam")
        => LET r == ant_results
               unit == RMul(AntennaLam, AntennaVf)
               ClaimedDirectorFrac(i) ==
                   CASE i = 0 -> Rat(48, 100) [] i = 1 -> Rat(47, 100)
                     [] i = 2 -> Rat(46, 100) [] i = 3 -> Rat(45, 100)
                     [] OTHER -> Rat(44, 100)
           IN  /\ r.driv = RMul(Rat(50, 100), unit)
               /\ r.refl = RMul(Rat(53, 100), unit)
               /\ RLt(r.driv, r.refl)
               /\ \A i \in 1 .. Len(r.dirs) :
                     /\ r.dirs[i] = RMul(ClaimedDirectorFrac(i - 1), unit)
                     /\ r.dirs[i] = RMul(RMax(Rat(44, 100),
                                              RSub(Rat(48, 100), Rat(i - 1, 100))), unit)
                     /\ RLt(r.dirs[i], r.driv)
                     /\ i > 1 => RLe(r.dirs[i], r.dirs[i - 1])

C21_Witness ==
    /\ last.op = "calculate_antenna" /\ last.ok
    /\ last.inp.type = "Yagi-Uda beam" /\ last.inp.material = "Steel"
    /\ AntennaLam = I(10)
    /\ Len(ant_results.dirs) = 6
    /\ ant_results.dirs[4] = Rat(405, 100)
    /\ ant_results.dirs[5] = Rat(396, 100)
    /\ ant_results.dirs[6] = Rat(396, 100)

\* ------------------------------------------------------------------------
\* The link budget tab over transmit powers and units (SpecPower)
\* ------------------------------------------------------------------------
\* "kW" is not a unit of powerToDbm
PowerInputs ==
    {RFInput(ptx, gtx, freq, dist, sens) :
        ptx \in {<<I(0), "W">>, <<I(-5), "W">>, <<I(0), "mW">>, <<I(-5), "mW">>,
                 <<I(5), "W">>, <<I(100), "mW">>, <<I(10), "dBm">>, <<I(-20), "dBm">>,
                 <<I(0), "dBm">>, <<I(3), "kW">>},
        gtx \in {I(-3), I(4000)},
        freq \in {<<I(1), "GHz">>, <<I(0), "MHz">>},
        dist \in {<<I(1), "mi">>, <<I(-5), "m">>},
        sens \in {I(-120), I(-60)}}

NextPower == \E inp \in PowerInputs : Len(history) < TabHistory /\ calculate_rf(inp)

SpecPower == Init /\ [][NextPower]_vars

\* the transmit power of the last link budget call is zero or negative watts
\* or milliwatts, and its distance and frequency are positive
NoPowerLink ==
    /\ last.op = "calculate_rf"
    /\ last.inp.ptx_unit \in {"W", "mW"}
    /\ RLe(last.inp.ptx_val, I(0))
    /\ RLt(I(0), RFDistanceKm(last.inp))
    /\ RLt(I(0), RFFreqMhz(last.inp))

\* the TX power a successful link budget call shows and records: -300 dBm
\* for watts or milliwatts at or below zero, the value itself for dBm and
\* for a unit that is none of W, mW, dBm
PowerShown ==
    (last.op = "calculate_rf" /\ last.ok) =>
        LET inp == last.inp
            p == rf_results.ptx_dbm
        IN  /\ history[Len(history)].inputs.ptx_dbm = p
            /\ (inp.ptx_unit \in {"W", "mW"} /\ RLe(inp.ptx_val, I(0))) => p = I(-300)
            /\ inp.ptx_unit \notin {"W", "mW"} => p = inp.ptx_val

UnitsRFInputs ==
    {RFInput(<<I(10), "dBm">>, I(-3), <<f, fu>>, <<I(1000), du>>, I(-120)) :
        f \in {I(1000), I(1)},
        fu \in {"Hz", "kHz", "MHz", "GHz", "k", "M", "G", "THz", ""},
        du \in {"km", "m", "mi", "ft", "KM", "FT", "yd"}}

\* frequencies that are 299792458 Hz (a wavelength of 1 m) under their unit
UnitsAntennaInputs ==
    {AntennaInput(f, "Half-wave dipole", "Copper", 3) :
        f \in {<<I(299792458), "Hz">>, <<Rat(299792458, 1000), "kHz">>,
             <<Rat(299792458, 1000000), "MHz">>, <<Rat(299792458, 1000000000), "GHz">>,
             <<Rat(299792458, 1000), "k">>, <<Rat(299792458, 1000000), "M">>,
             <<Rat(299792458, 1000000000), "G">>, <<I(299792458), "THz">>,
             <<I(299792458), "">>, <<Rat(299792458, 1000), "THz">>}}

NextUnits ==
    \/ \E inp \in UnitsRFInputs : Len(history) < TabHistory /\ calculate_rf(inp)
    \/ \E inp \in UnitsAntennaInputs : Len(history) < TabHistory /\ calculate_antenna(inp)

SpecUnits == Init /\ [][NextUnits]_vars

\* C23 as stated: a frequency unit that is none of Hz, kHz, MHz, GHz leaves
\* the value unchanged in freqToMhz and freqToHz, and a distance unit that is
\* none of km, m, mi, ft leaves it unchanged in distToKm.
C23_OtherUnitsPassThrough ==
    /\ (last.op = "calculate_rf" /\ last.ok) =>
          /\ last.inp.freq_unit \notin {"Hz", "kHz", "MHz", "GHz"}
                => rf_results.freqMhz = last.inp.freq_val
          /\ last.inp.dist_unit \notin {"km", "m", "mi", "ft"}
                => rf_results.distanceKm = last.inp.dist_val
    /\ (last.op = "calculate_antenna" /\ last.ok) =>
          (last.inp.freq_unit \notin {"Hz", "kHz", "MHz", "GHz"}
                => history[Len(history)].inputs.freqHz = last.inp.freq_val)

\* C23, amended: the converters compare the unit in lower case and know the
\* short forms k, m, g of the frequency units; every other unit string
\* leaves the value unchanged, and no unit string makes a converter fail.
C23_UnknownUnitsPassThrough ==
    /\ (last.op = "calculate_rf") =>
          /\ last.ok
          /\ LET u == last.inp.freq_unit
                 v == last.inp.freq_val
             IN  rf_results.freqMhz =
                    CASE u = "Hz" -> RDiv(v, I(1000000))
                      [] u \in {"kHz", "k"} -> RDiv(v, I(1000))
                      [] u \in {"MHz", "M"} -> v
                      [] u \in {"GHz", "G"} -> RMul(v, I(1000))
                      [] OTHER -> v
          /\ LET u == last.inp.dist_unit
                 v == last.inp.dist_val
             IN  rf_results.distanceKm =
                    CASE u \in {"km", "KM"} -> v
                      [] u = "m" -> RDiv(v, I(1000))
                      [] u = "mi" -> RMul(v, Rat(1609344, 1000000))
                      [] u \in {"ft", "FT"} -> RDiv(RMul(v, I(100)), I(328084))
                      [] OTHER -> v
    /\ (last.op = "calculate_antenna") =>
          /\ last.ok
          /\ LET u == last.inp.freq_unit
                 v == last.inp.freq_val
             IN  history[Len(history)].inputs.freqHz =
                    CASE u = "Hz" -> v
                      [] u \in {"kHz", "k"} -> RMul(v, I(1000))
                      [] u \in {"MHz", "M"} -> RMul(v, I(1000000))
                      [] u \in {"GHz", "G"} -> RMul(v, I(1000000000))
                      [] OTHER -> v

C23_Witness ==
    /\ last.op = "calculate_antenna" /\ last.ok
    /\ last.inp.freq_unit = "THz"
    /\ last.inp.freq_val = Rat(299792458, 1000)
    /\ history[Len(history)].inputs.freqHz = Rat(299792458, 1000)
    /\ ant_results.lam = I(1000)

\* ------------------------------------------------------------------------
\* History tab
\* ------------------------------------------------------------------------
\* sel: the positions of the selected rows; sel[0] is the first of them in
\* display order and hist_tree.index gives its 0-based position
SelectedIndex(sel) == (CHOOSE i \in sel : \A j \in sel : i <= j) - 1

\* view_history_details: the record at the index of the selected row is shown
view_history_details(sel) ==
    /\ sel # {}
    /\ LET idx == SelectedIndex(sel)
       IN  last' = [op |-> "view_history_details", inp |-> sel, ok |-> TRUE,
                    error |-> "", idx |-> idx, rec |-> history[idx + 1]]
    /\ UNCHANGED <<history, hist_tree, friis_tree, rf_results, friis_results,
                   coax_results, smith_results, fresnel_results, ant_results>>

\* export_history_csv: the record at the index of the selected row is written
\* to the chosen file; without a selection a warning is shown, without a
\* path nothing is written
export_history_csv(sel, path) ==
    /\ IF sel = {}
       THEN last' = [op |-> "export_history_csv", inp |-> sel, ok |-> FALSE,
                     error |-> "Select a record first."]
       ELSE LET idx == SelectedIndex(sel)
            IN  last' = [op |-> "export_history_csv", inp |-> sel, ok |-> TRUE,
                         error |-> "", idx |-> idx,
                         rec |-> IF path = "" THEN CalcRecord("", "", <<>>, <<>>)
                                 ELSE history[idx + 1],
                         written |-> path # ""]
    /\ UNCHANGED <<history, hist_tree, friis_tree, rf_results, friis_results,
                   coax_results, smith_results, fresnel_results, ant_results>>

\* ------------------------------------------------------------------------
\* All the calculators over a loaded history (SpecHistory)
\* ------------------------------------------------------------------------
\* a record of an earlier session, as load_history reads it from the file
LoadedRecord ==
    CalcRecord("Feedline", "Coax Loss",
               [coax |-> "RG-58", freq_mhz |-> I(50), length_ft |-> I(100),
                conn_type |-> "N-Type", conn_count |-> 2],
               [coax_loss_db |-> I(3), connector_loss_db |-> Rat(1, 10),
                total_loss_db |-> Rat(31, 10), vf |-> Rat(66, 100)])

\* load_history found no file, or a file with one record
InitLoaded ==
    /\ history \in {<<>>, <<LoadedRecord>>}
    /\ hist_tree = HistoryRows(history)
    /\ InitTabs

\* per calculator one input that succeeds and one that fails (calculate_coax
\* raises on no number: one input, which succeeds)
HistoryRFInputs ==
    {RFInput(<<I(5), "W">>, I(-3), f, <<I(1), "mi">>, I(-120)) :
        f \in {<<I(1), "GHz">>, <<I(0), "MHz">>}}

HistorySmithInputs ==
    {[R |-> I(25), X |-> I(10), Z0 |-> I(50), freq_mhz |-> Rat(1, 1000)],
     [R |-> I(-50), X |-> I(0), Z0 |-> I(50), freq_mhz |-> Rat(1, 1000)]}

NextHistory ==
    \/ \E inp \in HistoryRFInputs : calculate_rf(inp) /\ Len(history') <= MaxHistory
    \/ \E inp \in {CoaxInput("LMR-400", <<Rat(14652, 100), "MHz">>)} :
           calculate_coax(inp) /\ Len(history') <= MaxHistory
    \/ \E inp \in HistorySmithInputs : calculate_smith(inp) /\ Len(history') <= MaxHistory
    \/ \E inp \in FresnelFew : calculate_fresnel(inp) /\ Len(history') <= MaxHistory
    \/ \E inp \in AntennaFew : calculate_antenna(inp) /\ Len(history') <= MaxHistory
    \/ friis_tree = <<>> /\ add_friis_stage(DefaultStage)
    \/ clear_friis_stages
    \/ calculate_friis /\ Len(history') <= MaxHistory
    \/ \E sel \in SUBSET (1 .. Len(hist_tree)) : view_history_details(sel)
    \/ \E sel \in {{}} \cup {{i} : i \in 1 .. Len(hist_tree)}, path \in {"", "out.csv"} :
           export_history_csv(sel, path)

SpecHistory == InitLoaded /\ [][NextHistory]_vars

Calculators ==
    {"calculate_rf", "calculate_friis", "calculate_fresnel", "calculate_coax",
     "calculate_smith", "calculate_antenna"}

\* the category and title each calculator hands to add_history
RecordHead ==
    [calculate_rf |-> <<"RF", "RF Link Budget">>,
     calculate_friis |-> <<"Receiver", "Friis Noise Figure">>,
     calculate_fresnel |-> <<"Path", "Fresnel Zone">>,
     calculate_coax |-> <<"Feedline", "Coax Loss">>,
     calculate_smith |-> <<"Match", "Smith/SWR">>,
     calculate_antenna |-> <<"Antenna", "Antenna Calc">>]

FreshResult(op, inp) ==
    CASE op = "calculate_rf" -> rf_try(inp).results
      [] op = "calculate_friis" -> friis_try(inp).results
      [] op = "calculate_fresnel" -> fresnel_try(inp).results
      [] op = "calculate_coax" -> coax_try(inp).results
      [] op = "calculate_smith" -> smith_try(inp).results
      [] op = "calculate_antenna" -> antenna_try(inp).results

C26_StagesNumberedInOrder ==
    /\ \A i \in 1 .. Len(friis_tree) : friis_tree[i].stage = i
    /\ [][/\ \A i \in 1 .. Len(friis_tree') : friis_tree'[i].stage = i
          /\ last'.op = "remove_friis_stage" =>
                LET kept == (1 .. Len(friis_tree)) \ last'.inp
                    RowValues(row) == <<row.g_db, row.nf_db, row.t_k, row.use_t>>
                    KthOf(positions, k) ==
                        CHOOSE p \in positions :
                            Cardinality({q \in positions : q < p}) = k - 1
                IN  /\ Len(friis_tree') = Cardinality(kept)
                    /\ \A k \in 1 .. Len(friis_tree') :
                          RowValues(friis_tree'[k]) = RowValues(friis_tree[KthOf(kept, k)])
          /\ last'.op = "add_friis_stage" =>
                /\ Len(friis_tree') = Len(friis_tree) + 1
                /\ \A k \in 1 .. Len(friis_tree) : friis_tree'[k] = friis_tree[k]
          /\ last'.op = "clear_friis_stages" => friis_tree' = <<>>
          /\ (last'.op = "calculate_friis" /\ last'.ok) =>
                LET stages == history'[Len(history')].inputs.stages
                IN  /\ Len(stages) = Len(friis_tree)
                    /\ \A k \in 1 .. Len(stages) :
                          /\ stages[k].g_db = friis_tree[k].g_db
                          /\ stages[k].nf_db = friis_tree[k].nf_db
                          /\ stages[k].t_k = friis_tree[k].t_k
                    /\ friis_results'.F_total =
                          FriisClosedForm(GainsOf(stages), NoiseFactorsOf(stages))]_vars

\* the first of three stages was removed: the two that remain are numbered
\* 1 and 2 and the one that was third, of another kind than the second, is
\* now the second
C26_Witness ==
    /\ last.op = "remove_friis_stage"
    /\ last.inp = {1}
    /\ Len(friis_tree) = 2
    /\ friis_tree[1].stage = 1 /\ friis_tree[2].stage = 2
    /\ friis_tree[1].use_t = "False" /\ friis_tree[2].use_t = "True"

\* C27: the history only grows at its end, so the records stay in the order
\* of the calls; after every add_history the view has exactly one row per
\* record in the same order; and View Details and Export Selected take the
\* record at the index of the first selected row, which is the record that
\* row displays.
C27_RowsIndexRecords ==
    /\ Len(hist_tree) = Len(history)
    /\ \A i \in 1 .. Len(history) :
          hist_tree[i] = <<history[i].category, history[i].title>>
    /\ [][/\ Len(history') >= Len(history)
          /\ SubSeq(history', 1, Len(history)) = history
          /\ Len(hist_tree') = Len(history')
          /\ \A i \in 1 .. Len(history') :
                hist_tree'[i] = <<history'[i].category, history'[i].title>>
          /\ (last'.op \in {"view_history_details", "export_history_csv"} /\ last'.ok) =>
                \E p \in last'.inp :
                    /\ \A q \in last'.inp : p <= q
                    /\ last'.idx = p - 1
                    /\ (last'.op = "export_history_csv" /\ ~last'.written)
                       \/ /\ last'.rec = history[p]
                          /\ <<last'.rec.category, last'.rec.title>> = hist_tree[p]]_vars

\* the details of the second row were viewed, the record of a matching call
\* made after the loaded feedline record
C27_Witness ==
    /\ last.op = "view_history_details"
    /\ last.inp = {2}
    /\ last.idx = 1
    /\ last.rec.category = "Match"
    /\ hist_tree = <<<<"Feedline", "Coax Loss">>, <<"Match", "Smith/SWR">>>>
    /\ history[1] = LoadedRecord

=============================================================================
